---- MODULE Spec2Model ----
(***************************************************************************)
(* A model of StarPing Planet: the ICMP manager and its receivers (network  *)
(* package), the Ping and MTR probe operations (tools package), and the     *)
(* scheduler, the configuration refresh and the report pipeline             *)
(* (cmd/planet).  Each subsystem has its own specification over the shared  *)
(* variables; the variables of the other subsystems stay at their initial   *)
(* values.                                                                  *)
(***************************************************************************)
EXTENDS Integers, Sequences, FiniteSets, TLC

(***************************************************************************)
(* Bounds of the model.                                                     *)
(***************************************************************************)
\* Issue calls that return a sink, per behaviour.
MaxProbes == 2
\* The seq counter is a uint16 and wraps at 65536; the model wraps it at
\* SeqModulus, so that a wrap with earlier probes outstanding is reachable
\* (MaxProbes is larger than SeqModulus).
SeqModulus == 1
\* The clock runs from 0 to MaxTime.
MaxTime == 2

\* PingConfig.Count and MTRConfig.Count range over 0 .. MaxCount.
MaxCount == 3
\* MTRConfig.MaxTTL ranges over 0 .. MaxTTLBound.
MaxTTLBound == 2

\* Reports handed to reportChannel, per behaviour, when a send can end in
\* any way.
MaxReports == 2
\* rc[i].Capacity: the capacities of the retry stages range over
\* 1 .. Capacity.
Capacity == 2
\* len(r): the -retry flag gives 0 .. MaxStages stages.
MaxStages == 2
\* Reports handed to reportChannel while the star is out of reach, per
\* behaviour.
MaxBurst == 5

\* config.PingConf.Frequency, in units of the scheduler's clock.
Frequency == 12
\* The target list has 1 .. MaxTargets targets.
MaxTargets == 3
\* Calls of the periodical function, per behaviour.
MaxCalls == 2

\* The two receiver chains.
Families == {"v4", "v6"}

\* rand.Intn(1 << 16): the per-probe random id.  Every probe of the model
\* draws the same id, the case in which ids tell nothing apart; inbound
\* packets carry that id or another one.
ProbeIDs == {1}
ResponseIDs == {1, 2}
\* One IPv4 and one IPv6 target.
Targets == {"10.0.0.1", "fe80::1"}
\* Per-probe timeouts, in clock units.
Timeouts == {1, 2}
\* The ICMP messages a receiver tells apart by the type of their body, and
\* msg.Code, the code byte of a message (0 .. 255 in the program): one code
\* of the Destination Unreachable table and one beyond it.
MsgTypes == {"Echo", "TimeExceeded", "DstUnreach", "other"}
CodeBytes == {0, 16}
\* The receiver returns without pushing an ICMPResponse.
NoCode == -1
ReceiverCodeOffset(type, code) ==
    CASE type = "Echo" -> 257
      [] type = "TimeExceeded" -> IF code # 0 THEN NoCode ELSE 258
      [] type = "DstUnreach" -> 259 + code
      [] OTHER -> NoCode
\* ICMPv4Receiver / ICMPv6Receiver, the switch on msg.Body: the Code of the
\* ICMPResponse made of a message.  r.Code starts as 257 and stays so for an
\* Echo body; a Time Exceeded with a code other than 0 and a body of another
\* type are dropped; a Destination Unreachable passes msg.Code on.
ReceiverCode(type, code) ==
    CASE type = "Echo" -> 257
      [] type = "TimeExceeded" -> IF code # 0 THEN NoCode ELSE 258
      [] type = "DstUnreach" -> code
      [] OTHER -> NoCode
\* The codes a receiver puts in an ICMPResponse.
ResponseCodes ==
    {ReceiverCode(type, code) : type \in MsgTypes, code \in CodeBytes}
        \ {NoCode}

VARIABLES
    \* ---- ICMP manager ----
    clock,        \* time.Now()
    counter,      \* ICMPManager.counter
    queue,        \* ICMPManager.queue: seq -> *ICMPRequest (NoRequest: no entry)
    sink,         \* per Issue call that returned a channel, in order of the
                  \* calls: how many results were sent on that channel
    ret,          \* what the last Issue call returned: "none", "nil", "sink"
    dpc,          \* position of the icmpDispatcher in its loop
    now,          \* icmpDispatcher's local now
    response,     \* icmpDispatcher's local response (NoResponse: nil)
    timeout,      \* icmpDispatcher's local timeout key list
    delivered,    \* the Deliver calls of the dispatcher's latest step that
                  \* sent a result: records of the request and the Result
    \* ---- Ping and MTR: one run ----
    op,           \* "ping" or "mtr"
    config,       \* the run's PingConfig / MTRConfig: Count (and MaxTTL)
    opc,          \* where the run is: "issue", "recv", "blocked", "done"
    i,            \* the loop variable i
    j,            \* MTR's loop variable j
    results,      \* Ping: the results received so far, in order
    stat,         \* Ping: stat.Stat; MTR: the MTRStat returned
    hopStat,      \* MTR's _stat
    minHop,       \* MTR's minHop
    maxHop,       \* MTR's maxHop
    outstanding,  \* the sinks m.Issue returned to the run on which it has
                  \* not received yet
    \* ---- report pipeline ----
    report,       \* per report: where it is
    firstSend,    \* per report: the outcome of sender's client.Do
    tries,        \* per report: who called client.Do for it, in order
                  \* (0: sender, n: stage n)
    resend,       \* per report: the outcome of the latest flipFlopSender's
                  \* client.Do
    rc,           \* main's rc: the capacity of each retry stage
    main,         \* per pusher: its local main, "procN" or "waitN"
    procN,        \* per level: the channel made as procN
    waitN,        \* per level: the channel made as waitN
    sending,      \* per pusher: the report it waits to send on an
                  \* unbuffered channel (0: none)
    proc,         \* per stage: flipFlopReporter's local proc
    rpc,          \* per stage: where flipFlopReporter is
    ri,           \* per stage: the drain loop's variable i
    semaphore,    \* per stage: flipFlopReporter's local semaphore (0: nil)
    inProc,       \* per stage: the reports that were in proc when the pass
                  \* the stage is in was triggered
    drain,        \* per DrainTrash goroutine: the channel of its receive
                  \* and whether it waits there or logs
    congestWarn,  \* the package variable congestWarn
    warned,       \* advisory warnings logged since the throttle last fired
    \* ---- the ping scheduler ----
    stime,        \* time.Now(), in units of the scheduler
    targetsN,     \* len(*config.PingTargets)
    pingInterval, \* main's pingInterval
    bursts,       \* per call of the periodical function, in order: the
                  \* length of its pingTargets, the index of the next
                  \* target, when its ticker lets it go on, and the times at
                  \* which it started its tasks
    \* ---- the ICMP receivers ----
    cancelled,    \* mgr.cancel() has been called: ctx.Done() is closed
    rcv,          \* per family: where the receiver task of the chain is,
                  \* and whether it was started after the cancellation
    readUntil,    \* per family: when its chain ended
    readsAfter,   \* per family: the reads that returned after cancellation
    failed,       \* per family: icmp.ListenPacket failed
    packet,       \* the packet a receiver task's conn.ReadFrom returned, with
                  \* the task's now (NoPacket: none read yet)
    pushed        \* what that task sent, and on which of its channels

icmpVars == <<clock, counter, queue, sink, ret,
              dpc, now, response, timeout, delivered>>

opsVars == <<op, config, opc, i, j, results, stat, hopStat, minHop, maxHop,
             outstanding>>

reportVars == <<report, firstSend, tries, resend, rc, main, procN, waitN, sending,
                proc, rpc, ri, semaphore, inProc, drain, congestWarn, warned>>

schedVars == <<stime, targetsN, pingInterval, bursts>>

recvVars == <<cancelled, rcv, readUntil, readsAfter, failed>>

parseVars == <<packet, pushed>>

vars == <<clock, counter, queue, sink, ret,
          dpc, now, response, timeout, delivered,
          op, config, opc, i, j, results, stat, hopStat, minHop, maxHop,
          outstanding,
          report, firstSend, tries, resend, rc, main, procN, waitN, sending,
          proc, rpc, ri, semaphore, inProc, drain, congestWarn, warned,
          stime, targetsN, pingInterval, bursts,
          cancelled, rcv, readUntil, readsAfter, failed,
          packet, pushed>>

(***************************************************************************)
(* network: ICMPRequest, ICMPResponse, Result                               *)
(***************************************************************************)
NoResponse == [Seq |-> -1]
NoRequest == [Sink |-> 0]
NoIP == "<nil>"

\* ipAddr.IP.To4() != nil
IsV4(ip) == ip = "10.0.0.1"

\* ICMPRequest.SetTimeout: IssueTime = now, Deadline = IssueTime + duration
SetTimeout(r, duration) ==
    [r EXCEPT !.IssueTime = clock, !.Deadline = clock + duration]

PassedLate(r, time) == r.Deadline + 1 < time
PassedAtDeadline(r, time) == r.Deadline <= time
\* ICMPRequest.Passed: Deadline.Before(time)
Passed(r, time) == r.Deadline < time

\* The Result with code 256.  Received is not a field of Result: it records
\* the receive time of the response the result was computed from (-1: none).
TimeoutResult(received) ==
    [Code |-> 256, Latency |-> 0, AddrIP |-> NoIP, Received |-> received]

MatchesID(r, resp) == resp.ID = r.ID
\* ICMPRequest.Deliver's identifier test
Matches(r, resp) == resp.ID = r.ID /\ resp.TargetIP = r.TargetIP

DeliverResultByNow(r, resp) ==
    IF resp = NoResponse
    THEN TimeoutResult(-1)
    ELSE IF Passed(r, now)
         THEN TimeoutResult(resp.Received)
         ELSE [Code |-> resp.Code, Latency |-> resp.Received - r.IssueTime,
               AddrIP |-> resp.AddrIP, Received |-> resp.Received]

\* delivery = make(chan *Result, 1): the results a sink holds unread.
SinkCapacity == 1

\* ICMPRequest.Deliver: the Result sent on the delivery channel
DeliverResult(r, resp) ==
    IF resp = NoResponse
    THEN TimeoutResult(-1)
    ELSE IF Passed(r, resp.Received)
         THEN TimeoutResult(resp.Received)
         ELSE [Code |-> resp.Code, Latency |-> resp.Received - r.IssueTime,
               AddrIP |-> resp.AddrIP, Received |-> resp.Received]

(***************************************************************************)
(* network: the outstanding-probe table (ConMapRequest), keyed by seq.      *)
(***************************************************************************)
Seqs == 0 .. SeqModulus - 1

\* Set(key, request, timeout): stamps the request and stores it under key
ConMapSet(m, key, r, duration) == [m EXCEPT ![key] = SetTimeout(r, duration)]
ConMapExists(m, key) == m[key] # NoRequest
ConMapRemove(m, key) == [m EXCEPT ![key] = NoRequest]
\* IterBuffered: a snapshot of the keys that have an entry
ConMapIter(m) == {k \in Seqs : m[k] # NoRequest}

(***************************************************************************)
(* network: ICMPManager.Issue                                               *)
(***************************************************************************)
IssueIgnoresTTLError(isIPAddr, dialOk, ttlOk) == ~isIPAddr \/ ~dialOk
\* Issue returns nil: ip is no *net.IPAddr, net.Dial fails, or SetTTL /
\* SetHopLimit fails.
IssueFails(isIPAddr, dialOk, ttlOk) == ~isIPAddr \/ ~dialOk \/ ~ttlOk

\* The seq counter is taken and incremented after net.Dial succeeded, so also
\* when SetTTL / SetHopLimit then fails.
IssueTakesSeq(isIPAddr, dialOk) == isIPAddr /\ dialOk

\* The receiver chain that reads the responses of a probe to ip.
FamilyOf(ip) == IF IsV4(ip) THEN "v4" ELSE "v6"

\* writeOk is the outcome of conn.Write, which Issue ignores.  Orphan is not
\* a field of ICMPRequest: it records that the request was issued after the
\* receiver of its family had failed to open its socket.
Issue(isIPAddr, dialOk, ttlOk, writeOk, dest, id, duration) ==
    /\ counter' = IF IssueTakesSeq(isIPAddr, dialOk)
                  THEN (counter + 1) % SeqModulus ELSE counter
    /\ IF IssueFails(isIPAddr, dialOk, ttlOk)
       THEN /\ ret' = "nil"
            /\ UNCHANGED <<queue, sink>>
       ELSE /\ Len(sink) < MaxProbes
            /\ clock + duration < MaxTime
            /\ sink' = Append(sink, 0)
            /\ queue' = ConMapSet(queue, counter,
                  [Sink |-> Len(sink) + 1, Seq |-> counter, ID |-> id,
                   TargetIP |-> dest, IssueTime |-> 0, Deadline |-> 0,
                   Orphan |-> failed[FamilyOf(dest)]],
                  duration)
            /\ ret' = "sink"
    /\ UNCHANGED <<clock, dpc, now, response, timeout, delivered>>
    /\ UNCHANGED <<opsVars, reportVars, schedVars, recvVars, parseVars>>

\* A failing call reads neither the id nor the timeout, and of the address
\* only its kind.
IssueCall ==
    \/ \E writeOk \in BOOLEAN, dest \in Targets, id \in ProbeIDs,
          duration \in Timeouts :
         Issue(TRUE, TRUE, TRUE, writeOk, dest, id, duration)
    \/ \E isIPAddr, dialOk, ttlOk \in BOOLEAN :
         /\ ~(isIPAddr /\ dialOk /\ ttlOk)
         /\ Issue(isIPAddr, dialOk, ttlOk, FALSE, "10.0.0.1", 1, 1)

\* Time passes.
Tick ==
    /\ clock < MaxTime
    /\ clock' = clock + 1
    /\ UNCHANGED <<counter, queue, sink, ret,
                   dpc, now, response, timeout, delivered>>
    /\ UNCHANGED <<opsVars, reportVars, schedVars, recvVars, parseVars>>

(***************************************************************************)
(* network: ICMPManager.icmpDispatcher, one action per step of its loop.    *)
(* A local is reset where the code no longer reads it.                      *)
(***************************************************************************)
\* now := time.Now(); response = nil
DispNow ==
    /\ dpc = "now"
    /\ now' = clock
    /\ response' = NoResponse
    /\ dpc' = "select"
    /\ UNCHANGED <<clock, counter, queue, sink, ret,
                   timeout, delivered>>
    /\ UNCHANGED <<opsVars, reportVars, schedVars, recvVars, parseVars>>

\* The ICMPResponse a receiver makes of an inbound packet.  AddrIP is the
\* packet's source: the target itself for an Echo Reply, a hop otherwise.
ICMPResponse(seq, id, target, code, received) ==
    [Seq |-> seq, ID |-> id, TargetIP |-> target,
     AddrIP |-> IF code = 257 THEN target ELSE "hop",
     Received |-> received, Code |-> code]

\* What the dispatcher has read of a response it did not deliver: the seq,
\* by which it looked for the request, and the identifier if Deliver was
\* called.
Unread(resp, exists) ==
    IF exists
    THEN [Seq |-> resp.Seq, ID |-> resp.ID, TargetIP |-> resp.TargetIP]
    ELSE [Seq |-> resp.Seq]

\* A receiver of the family was there to read a packet at that time: the
\* family's chain has not ended, or it ended later.
Reads(family, received) ==
    rcv[family].pc # "gone" \/ received <= readUntil[family]

\* case response = <-v4 / <-v6, and the block it leads to:
\*   if request, exists := mgr.queue.Get(response.Seq); exists {
\*       if request.Deliver(response) { ... } }
\* The channels result4 and result6 are not stored: a receiver stamps a packet
\* with the time of its read and pushes it later, and the select may pass over
\* a ready channel, so what the dispatcher receives is any packet of the
\* family stamped at any time up to the present, or up to the end of the
\* family's receiver chain.  Nothing the block reads can
\* change between the receive and the Deliver but the table, and an Issue
\* that runs in between has the effect of one that ran before the receive.
DispReceive(family, seq, id, target, code, received) ==
    /\ dpc = "select"
    /\ IsV4(target) <=> family = "v4"
    /\ received <= clock
    /\ Reads(family, received)
    /\ LET resp == ICMPResponse(seq, id, target, code, received)
       IN IF ConMapExists(queue, resp.Seq) /\ Matches(queue[resp.Seq], resp)
          THEN LET request == queue[resp.Seq]
               IN /\ sink' = [sink EXCEPT ![request.Sink] = @ + 1]
                  /\ delivered' = {[Request |-> request,
                                    Result |-> DeliverResult(request, resp)]}
                  /\ dpc' = "remove"
                  /\ response' = resp
          ELSE /\ UNCHANGED <<sink, delivered>>
               /\ dpc' = "sweep"
               /\ response' = Unread(resp, ConMapExists(queue, resp.Seq))
    /\ UNCHANGED <<clock, counter, queue, ret, now, timeout>>
    /\ UNCHANGED <<opsVars, reportVars, schedVars, recvVars>>

\* The receive of a response of any receiver task.
DispRecv(family, seq, id, target, code, received) ==
    /\ DispReceive(family, seq, id, target, code, received)
    /\ UNCHANGED parseVars

\* case <-ticker.C
DispTicker ==
    /\ dpc = "select"
    /\ dpc' = "sweep"
    /\ UNCHANGED <<clock, counter, queue, sink, ret, now, response, timeout,
                   delivered>>
    /\ UNCHANGED <<opsVars, reportVars, schedVars, recvVars, parseVars>>

\* select { case response = <-v4: case response = <-v6: case <-ticker.C: }
DispSelect ==
    \/ \E target \in {t \in Targets : IsV4(t)}, seq \in Seqs,
          id \in ResponseIDs, code \in ResponseCodes, received \in 0 .. clock :
         DispRecv("v4", seq, id, target, code, received)
    \/ \E target \in {t \in Targets : ~IsV4(t)}, seq \in Seqs,
          id \in ResponseIDs, code \in ResponseCodes, received \in 0 .. clock :
         DispRecv("v6", seq, id, target, code, received)
    \/ DispTicker

\* The dispatcher going on to the sweep with the delivered request left in
\* the table.
DispKeeps ==
    /\ dpc = "remove"
    /\ dpc' = "sweep"
    /\ response' = NoResponse
    /\ delivered' = {}
    /\ UNCHANGED <<clock, counter, queue, sink, ret, now, timeout>>
    /\ UNCHANGED <<opsVars, reportVars, schedVars, recvVars, parseVars>>

\* mgr.queue.Remove(response.Seq)
DispRemove ==
    /\ dpc = "remove"
    /\ queue' = ConMapRemove(queue, response.Seq)
    /\ dpc' = "sweep"
    /\ response' = NoResponse
    /\ delivered' = {}
    /\ UNCHANGED <<clock, counter, sink, ret, now, timeout>>
    /\ UNCHANGED <<opsVars, reportVars, schedVars, recvVars, parseVars>>

\* for t := range mgr.queue.IterBuffered() {
\*     if t.Val.Passed(now) { timeout = append(timeout, t.Key); t.Val.Deliver(nil) } }
DispSweep ==
    /\ dpc = "sweep"
    /\ LET passed == {k \in ConMapIter(queue) : Passed(queue[k], now)}
           sinks == {queue[k].Sink : k \in passed}
       IN /\ timeout' = passed
          /\ sink' = [p \in DOMAIN sink |->
                        IF p \in sinks THEN sink[p] + 1 ELSE sink[p]]
          /\ delivered' = {[Request |-> queue[k],
                            Result |-> DeliverResult(queue[k], NoResponse)] :
                           k \in passed}
          /\ dpc' = IF passed = {} THEN "now" ELSE "sweepRemove"
    /\ now' = 0
    /\ response' = NoResponse
    /\ UNCHANGED <<clock, counter, queue, ret>>
    /\ UNCHANGED <<opsVars, reportVars, schedVars, recvVars, parseVars>>

\* for _, key := range timeout { mgr.queue.Remove(key) }
DispSweepRemove ==
    /\ dpc = "sweepRemove"
    /\ queue' = [k \in Seqs |->
                   IF k \in timeout THEN NoRequest ELSE queue[k]]
    /\ timeout' = {}
    /\ delivered' = {}
    /\ dpc' = "now"
    /\ UNCHANGED <<clock, counter, sink, ret, now, response>>
    /\ UNCHANGED <<opsVars, reportVars, schedVars, recvVars, parseVars>>

Dispatcher ==
    \/ DispNow
    \/ DispSelect
    \/ DispRemove
    \/ DispSweep
    \/ DispSweepRemove

(***************************************************************************)
(* network: ICMPv4Receiver and ICMPv6Receiver.  Each receiver task reads    *)
(* one packet and starts its successor; rcv[f] is the task of family f that *)
(* has not yet started a successor.  What a task does after it started its  *)
(* successor (conn.Close, parsing, the send on its channel) is part of the  *)
(* step of its read; the packets it hands on are those of DispRecv.         *)
(***************************************************************************)
CtxNeverDone == FALSE
\* case <-ctx.Done()
CtxDone == cancelled

\* The chain of family f ends: the task returns before it starts a successor.
ChainEnds(f, listenFailed) ==
    /\ rcv' = [rcv EXCEPT ![f].pc = "gone"]
    /\ readUntil' = [readUntil EXCEPT ![f] = clock]
    /\ failed' = [failed EXCEPT ![f] = @ \/ listenFailed]

\* select { case <-ctx.Done(): return; default: }
RecvCheck(f) ==
    /\ rcv[f].pc = "check"
    /\ IF CtxDone
       THEN ChainEnds(f, FALSE)
       ELSE /\ rcv' = [rcv EXCEPT ![f].pc = "listen"]
            /\ UNCHANGED <<readUntil, failed>>
    /\ UNCHANGED <<cancelled, readsAfter>>
    /\ UNCHANGED <<icmpVars, opsVars, reportVars, schedVars, parseVars>>

\* conn, err := icmp.ListenPacket(...); if err != nil { return }
RecvListen(f, ok) ==
    /\ rcv[f].pc = "listen"
    /\ IF ok
       THEN /\ rcv' = [rcv EXCEPT ![f].pc = "deadline"]
            /\ UNCHANGED <<readUntil, failed>>
       ELSE ChainEnds(f, TRUE)
    /\ UNCHANGED <<cancelled, readsAfter>>
    /\ UNCHANGED <<icmpVars, opsVars, reportVars, schedVars, parseVars>>

\* if err = conn.SetDeadline(time.Now().Add(wait)); err != nil { return }
RecvSetDeadline(f, ok) ==
    /\ rcv[f].pc = "deadline"
    /\ IF ok
       THEN /\ rcv' = [rcv EXCEPT ![f].pc = "read"]
            /\ UNCHANGED <<readUntil, failed>>
       ELSE ChainEnds(f, FALSE)
    /\ UNCHANGED <<cancelled, readsAfter>>
    /\ UNCHANGED <<icmpVars, opsVars, reportVars, schedVars, parseVars>>

\* conn.ReadFrom returns, with a packet or at the deadline;
\* go ICMPv4Receiver(wait, icmpResponse, rawResponse, ctx)
RecvRead(f) ==
    /\ rcv[f].pc = "read"
    /\ rcv' = [rcv EXCEPT ![f] = [pc |-> "check", late |-> cancelled]]
    /\ readsAfter' = [readsAfter EXCEPT ![f] = IF cancelled THEN @ + 1 ELSE @]
    /\ UNCHANGED <<cancelled, readUntil, failed>>
    /\ UNCHANGED <<icmpVars, opsVars, reportVars, schedVars, parseVars>>

Receiver(f) ==
    \/ RecvCheck(f)
    \/ \E ok \in BOOLEAN : RecvListen(f, ok)
    \/ \E ok \in BOOLEAN : RecvSetDeadline(f, ok)
    \/ RecvRead(f)

(***************************************************************************)
(* network: what a receiver task does with the packet it read.  A packet is *)
(* kept by what the task reads of it: the ICMP type and code, the source,   *)
(* the id and seq of an echo message, and for an error message the datagram *)
(* it embeds.                                                               *)
(***************************************************************************)
\* ICMP message types: the two echo types, the two error types the receiver
\* knows, one it does not, and bytes icmp.ParseMessage rejects.
PacketTypes ==
    {"EchoReply", "EchoRequest", "TimeExceeded", "DstUnreach", "Redirect",
     "malformed"}

\* icmp.ParseMessage: the type of msg.Body.  Echo and Echo Reply messages
\* both parse to *icmp.Echo (the receiver itself relies on it where it
\* parses the echo request embedded in an error message).
ParseMessage(type) ==
    CASE type \in {"EchoReply", "EchoRequest"} -> "Echo"
      [] type \in {"TimeExceeded", "DstUnreach"} -> type
      [] type = "malformed" -> "error"
      [] OTHER -> "other"

FamilyTargets(f) == {t \in Targets : IsV4(t) <=> f = "v4"}

\* body.Data of an error message: too short for an IP header and 8 bytes, a
\* header ParseHeader rejects, a datagram of another protocol, or an ICMP
\* message.
NoData == [Kind |-> "none"]
Embedded(f) ==
    {[Kind |-> k] : k \in {"short", "badHeader"}}
        \cup {[Kind |-> "datagram", Protocol |-> "UDP", Dst |-> t] :
                t \in FamilyTargets(f)}
        \cup [Kind : {"datagram"}, Protocol : {"ICMP"}, Dst : FamilyTargets(f),
              Type : {"EchoRequest", "Redirect", "malformed"},
              ID : ResponseIDs, Seq : Seqs]

\* conn.ReadFrom returned an error: the deadline passed with nothing read.
ReadFailed == [Type |-> "connErr"]
\* What conn.ReadFrom of a receiver of family f can return.
Packets(f) ==
    [Type : {"EchoReply", "EchoRequest"}, Code : {0}, Src : FamilyTargets(f),
     ID : ResponseIDs, Seq : Seqs, Data : {NoData}]
        \cup [Type : {"TimeExceeded", "DstUnreach"}, Code : CodeBytes,
              Src : {"hop"}, Data : Embedded(f)]
        \cup [Type : {"Redirect", "malformed"}, Code : {0}, Src : {"hop"},
              Data : {NoData}]
        \cup {ReadFailed}

NoPacket == [family |-> "none"]
NotPushed == [to |-> "none"]

\* ICMPv4Receiver / ICMPv6Receiver from `if connErr != nil || sAddr == nil`
\* on: what the task sends, and on which channel.
ICMPReceiver(msg, tnow) ==
    LET body == ParseMessage(msg.Type)
        code == ReceiverCode(body, msg.Code)
    IN IF msg.Type = "connErr" \/ body = "error" THEN NotPushed
       ELSE IF body = "Echo"
       THEN [to |-> "icmpResponse", read |-> FALSE,
             r |-> [Seq |-> msg.Seq, ID |-> msg.ID, TargetIP |-> msg.Src,
                    AddrIP |-> msg.Src, Received |-> tnow, Code |-> code]]
       ELSE IF code = NoCode THEN NotPushed
       ELSE IF msg.Data.Kind # "datagram" THEN NotPushed
       ELSE IF msg.Data.Protocol = "ICMP"
       THEN IF ParseMessage(msg.Data.Type) = "Echo"
            THEN [to |-> "icmpResponse", read |-> FALSE,
                  r |-> [Seq |-> msg.Data.Seq, ID |-> msg.Data.ID,
                         TargetIP |-> msg.Data.Dst, AddrIP |-> msg.Src,
                         Received |-> tnow, Code |-> code]]
            ELSE NotPushed
       ELSE [to |-> "rawResponse",
             r |-> [AddrIP |-> msg.Src, Received |-> tnow,
                    TargetIP |-> msg.Data.Dst, Protocol |-> msg.Data.Protocol,
                    Code |-> code]]

\* A receiver task of family f: conn.ReadFrom returns msg, now := time.Now(),
\* and the rest of the task.  The response of the task before it has been
\* received by the dispatcher.
RecvPacket(f, msg) ==
    /\ pushed.to = "icmpResponse" => pushed.read
    /\ packet' = [family |-> f, now |-> clock, msg |-> msg]
    /\ pushed' = ICMPReceiver(msg, clock)
    /\ UNCHANGED <<icmpVars, opsVars, reportVars, schedVars, recvVars>>

\* case response = <-v4 / <-v6 with the response of that task.
DispPushed ==
    /\ pushed.to = "icmpResponse"
    /\ ~pushed.read
    /\ DispReceive(packet.family, pushed.r.Seq, pushed.r.ID, pushed.r.TargetIP,
                   pushed.r.Code, pushed.r.Received)
    /\ pushed' = [pushed EXCEPT !.read = TRUE]
    /\ UNCHANGED packet

\* ICMPManager.Finish, FinishICMPManager: mgr.cancel()
Finish ==
    /\ ~cancelled
    /\ cancelled' = TRUE
    /\ UNCHANGED <<rcv, readUntil, readsAfter, failed>>
    /\ UNCHANGED <<icmpVars, opsVars, reportVars, schedVars, parseVars>>

(***************************************************************************)
(* tools: Ping and MTR.  One run of one of them on a resolvable target.  A  *)
(* float64 that holds milliseconds is kept as the integer number of         *)
(* nanoseconds: timeFloat is result.Latency, read in units of               *)
(* 1 / time.Millisecond.                                                    *)
(***************************************************************************)
\* The address a run probes.
TargetIP == "10.0.0.1"
HopIP == "10.1.1.1"

\* math.MaxFloat64, the initial Min.  The model's value is smaller, and like
\* the program's it is larger than every latency a result can carry.
MaxFloat64 == 1000

\* What a run can receive from the sink of a probe: a timeout, a Time
\* Exceeded from a hop or from the target's address, an Echo Reply from the
\* target after one or two time units, a Destination Unreachable from a hop.
ProbeResults ==
    { [Code |-> 256, Latency |-> 0, AddrIP |-> NoIP],
      [Code |-> 258, Latency |-> 1, AddrIP |-> HopIP],
      [Code |-> 258, Latency |-> 2, AddrIP |-> TargetIP],
      [Code |-> 257, Latency |-> 1, AddrIP |-> TargetIP],
      [Code |-> 257, Latency |-> 2, AddrIP |-> TargetIP],
      [Code |-> 3, Latency |-> 2, AddrIP |-> HopIP] }

\* math.Min
MathMin(a, b) == IF b < a THEN b ELSE a
MathMaxKeepsFirst(a, b) == a
\* math.Max
MathMax(a, b) == IF b > a THEN b ELSE a

\* result := <- m.Issue(...): Issue returns nil when it fails, and a receive
\* from a nil channel never returns.  Ping and MTR pass a *net.IPAddr.
ReceiveBlocks(dialOk, ttlOk) == IssueFails(TRUE, dialOk, ttlOk)

\* The sinks the run has not received from, after m.Issue has returned.
Returned(n, dialOk, ttlOk) ==
    IF ReceiveBlocks(dialOk, ttlOk) THEN n ELSE n + 1

AtIssueOrReceive == opc \in {"issue", "recv"}
\* The run is at m.Issue(...): the loop has begun an iteration, which it
\* does only when the receive of the iteration before has returned.
AtIssue == opc = "issue"

(***************************************************************************)
(* tools: Ping                                                              *)
(***************************************************************************)
\* stat.Stat after Ping's initialisation.  Avg is a fraction: the running
\* sum over 1 in the loop, the sum over succeed after it.
PingStatInit(count) ==
    [Timeout |-> FALSE, Avg |-> [Num |-> 0, Den |-> 1], Min |-> MaxFloat64,
     Max |-> 0, Drop |-> 0, Total |-> count]

PingDropsTimeoutsOnly(result) == result.Code = 256
\* if result.Code != 257 { stat.Stat.Drop++ }
PingDrops(result) == result.Code # 257

\* The body of Ping's loop after the receive.
PingRecord(s, result) ==
    IF PingDrops(result)
    THEN [s EXCEPT !.Drop = @ + 1]
    ELSE [s EXCEPT !.Avg = [Num |-> @.Num + result.Latency, Den |-> 1],
                   !.Min = MathMin(@, result.Latency),
                   !.Max = MathMax(@, result.Latency)]

\* Ping after its loop.
PingFinal(s) ==
    IF s.Total = s.Drop
    THEN [s EXCEPT !.Min = 0, !.Timeout = TRUE]
    ELSE [s EXCEPT !.Avg = [Num |-> @.Num, Den |-> s.Total - s.Drop]]

\* m.Issue(addr, 100, config.Timeout)
PingIssue(dialOk, ttlOk) ==
    /\ op = "ping"
    /\ AtIssue
    /\ i < config.Count
    /\ opc' = IF ReceiveBlocks(dialOk, ttlOk) THEN "blocked" ELSE "recv"
    /\ outstanding' = Returned(outstanding, dialOk, ttlOk)
    /\ UNCHANGED <<op, config, i, j, results, stat, hopStat, minHop, maxHop>>
    /\ UNCHANGED <<icmpVars, reportVars, schedVars, recvVars, parseVars>>

\* result := <- sink, and the rest of the loop body
PingRecv(result) ==
    /\ op = "ping"
    /\ opc = "recv"
    /\ results' = Append(results, result)
    /\ stat' = PingRecord(stat, result)
    /\ i' = i + 1
    /\ opc' = "issue"
    /\ outstanding' = outstanding - 1
    /\ UNCHANGED <<op, config, j, hopStat, minHop, maxHop>>
    /\ UNCHANGED <<icmpVars, reportVars, schedVars, recvVars, parseVars>>

\* The loop has ended: Ping computes the statistics and returns.
PingReturn ==
    /\ op = "ping"
    /\ opc = "issue"
    /\ i >= config.Count
    /\ stat' = PingFinal(stat)
    /\ opc' = "done"
    /\ UNCHANGED <<op, config, i, j, results, hopStat, minHop, maxHop,
                   outstanding>>
    /\ UNCHANGED <<icmpVars, reportVars, schedVars, recvVars, parseVars>>

(***************************************************************************)
(* tools: MTR.  Hops are numbered from 0 as in the code; hopStat[n + 1] is   *)
(* _stat[n].                                                                 *)
(***************************************************************************)
\* _stat after MTR's initialisation
HopStatInit(maxTTL) ==
    [n \in 1 .. maxTTL |->
        [IP |-> {}, Avg |-> 0, Min |-> MaxFloat64, Max |-> 0,
         Drop |-> 0, Total |-> 0]]

\* HopInfo.String of an entry of _stat[n].IP, whose RDNS is empty: the IP
\* followed by a mark for a code below 256 (a different mark for each code)
\* and by nothing for 257 and 258.  Mark 256 stands for no mark.
HopInfoString(k) ==
    [IP |-> k.IP, Mark |-> IF k.Code < 256 THEN k.Code ELSE 256]

\* The body of MTR's inner loop after the receive, on the hop's statistics.
MTRRecord(h, result) ==
    IF result.Code = 256
    THEN [h EXCEPT !.Drop = @ + 1]
    ELSE [h EXCEPT !.IP = @ \cup {[IP |-> result.AddrIP, Code |-> result.Code]},
                   !.Avg = @ + result.Latency,
                   !.Min = MathMin(@, result.Latency),
                   !.Max = MathMax(@, result.Latency)]

MTRBreaksOnReply(result) == result.Code # 256
\* The reply ends the round: neither a timeout nor a Time Exceeded.
MTRBreaks(result) == result.Code # 256 /\ result.Code # 258

\* The CHECK loop, from hop n down: the value of maxHop after it.  h is the
\* map of strings, which the loop never clears.
RECURSIVE TrimFrom(_, _, _, _, _)
TrimFrom(s, n, lo, h, hi) ==
    IF n <= lo
    THEN hi
    ELSE IF s[n + 1].Drop = s[n + 1].Total
         THEN TrimFrom(s, n - 1, lo, h, hi)
         ELSE IF Cardinality(s[n + 1].IP) = Cardinality(s[n].IP)
              THEN LET h2 == h \cup {HopInfoString(k) : k \in s[n + 1].IP}
                   IN IF \E k \in s[n].IP : HopInfoString(k) \notin h2
                      THEN hi
                      ELSE TrimFrom(s, n - 1, lo, h2, n)
              ELSE hi

\* maxHop after the CHECK loop
Trim(s, lo, hi) == TrimFrom(s, hi - 1, lo, {}, hi)

HopIndexFromZero(n) == n
\* Index: i + 1
HopIndex(n) == n + 1

\* The MTRHopStat made of _stat[n]
MTRHopStat(s, n) ==
    LET h == s[n + 1]
        base == [Index |-> HopIndex(n), Timeout |-> FALSE, IP |-> {},
                 Avg |-> [Num |-> 0, Den |-> 1], Min |-> 0, Max |-> h.Max,
                 Drop |-> h.Drop, Total |-> h.Total]
    IN IF h.Total = h.Drop
       THEN [base EXCEPT !.Timeout = TRUE]
       ELSE [base EXCEPT !.IP = h.IP, !.Min = h.Min,
                         !.Avg = [Num |-> h.Avg, Den |-> h.Total - h.Drop]]

\* The list stat: one entry per hop below hi, up to the first hop that was
\* never probed.
BuildStat(s, hi) ==
    LET unprobed == {n \in 0 .. hi - 1 : s[n + 1].Total = 0}
        len == IF unprobed = {}
               THEN hi
               ELSE CHOOSE n \in unprobed : \A m \in unprobed : n <= m
    IN [n \in 1 .. len |-> MTRHopStat(s, n - 1)]

\* return &MTRStat{IP: ip, Stat: &stat}: HopCount is left at its zero value.
MTRStat(s, lo, hi) ==
    [IP |-> TargetIP, HopCount |-> 0, Stat |-> BuildStat(s, Trim(s, lo, hi))]

\* _stat[j].Total++; m.Issue(addr, j + 1, config.Timeout)
MTRIssue(dialOk, ttlOk) ==
    /\ op = "mtr"
    /\ AtIssue
    /\ i < config.Count
    /\ j < config.MaxTTL
    /\ IF j >= Len(hopStat)
       THEN \* _stat has the length MaxTTL had when MTR was called: index out
            \* of range, the process panics
            /\ opc' = "panic"
            /\ UNCHANGED <<hopStat, outstanding>>
       ELSE /\ hopStat' = [hopStat EXCEPT ![j + 1].Total = @ + 1]
            /\ opc' = IF ReceiveBlocks(dialOk, ttlOk) THEN "blocked"
                      ELSE "recv"
            /\ outstanding' = Returned(outstanding, dialOk, ttlOk)
    /\ UNCHANGED <<op, config, i, j, results, stat, minHop, maxHop>>
    /\ UNCHANGED <<icmpVars, reportVars, schedVars, recvVars, parseVars>>

\* result := <- sink, the rest of the inner loop's body, and the step to the
\* next hop or the next round.
MTRRecv(result) ==
    /\ op = "mtr"
    /\ opc = "recv"
    /\ hopStat' = [hopStat EXCEPT ![j + 1] = MTRRecord(@, result)]
    /\ IF MTRBreaks(result)
       THEN /\ minHop' = IF minHop > j THEN j ELSE minHop
            /\ maxHop' = IF maxHop < j + 1 THEN j + 1 ELSE maxHop
       ELSE UNCHANGED <<minHop, maxHop>>
    /\ IF MTRBreaks(result) \/ j + 1 >= config.MaxTTL
       THEN i' = i + 1 /\ j' = 0
       ELSE i' = i /\ j' = j + 1
    /\ opc' = "issue"
    /\ outstanding' = outstanding - 1
    /\ UNCHANGED <<op, config, results, stat>>
    /\ UNCHANGED <<icmpVars, reportVars, schedVars, recvVars, parseVars>>

\* The rounds have ended: MTR trims the tail, builds the list and returns.
MTRReturn ==
    /\ op = "mtr"
    /\ opc = "issue"
    /\ i >= config.Count \/ config.MaxTTL = 0
    /\ stat' = MTRStat(hopStat, minHop, maxHop)
    /\ opc' = "done"
    /\ UNCHANGED <<op, config, i, j, results, hopStat, minHop, maxHop,
                   outstanding>>
    /\ UNCHANGED <<icmpVars, reportVars, schedVars, recvVars, parseVars>>

(***************************************************************************)
(* cmd/planet: updateConfig.  pingRoutine and mtrRoutine hand Ping and MTR   *)
(* the pointers config.PingConf and config.MTRConf; a refresh that succeeds *)
(* unmarshals the new configuration into the same Config, that is into the  *)
(* PingConfig and the MTRConfig those pointers point at.                    *)
(***************************************************************************)
\* The configurations the star can answer with.
Configs == [Count : 0 .. MaxCount, MaxTTL : 0 .. MaxTTLBound]

\* _ = json.Unmarshal(bytes.Trim(configByte, "\x00"), config)
UpdateConfig(c) ==
    /\ c # config
    /\ op = "ping" => c.MaxTTL = 0
    /\ config' = c
    /\ UNCHANGED <<op, opc, i, j, results, stat, hopStat, minHop, maxHop,
                   outstanding>>
    /\ UNCHANGED <<icmpVars, reportVars, schedVars, recvVars, parseVars>>

(***************************************************************************)
(* cmd/planet: the ping scheduler.  runPeriodical starts the periodical     *)
(* function every Frequency; the function copies the target list and starts *)
(* one pingRoutine per target, a tick of its own ticker apart.  Time is     *)
(* counted in units of which Frequency is a whole number; a step that is    *)
(* due is taken before time moves on.  The MTR scheduler is the same code   *)
(* with the MTR configuration.                                              *)
(***************************************************************************)
\* len(*config.PingTargets), at the start and after a refresh
TargetCounts == 1 .. MaxTargets

\* When runPeriodical's ticker starts call number n of the function
\* (counted from 0).
BurstStart(n) == n * Frequency

\* A call of the function that has targets left to start.
Running(b) == bursts[b].next < bursts[b].targets

\* The next thing to happen is due now.
Due ==
    \/ Len(bursts) < MaxCalls /\ BurstStart(Len(bursts)) <= stime
    \/ \E b \in DOMAIN bursts : Running(b) /\ bursts[b].at <= stime

\* time.Duration(int64(config.PingConf.Frequency) / int64(len(*config.PingTargets)))
PingInterval(count) == Frequency \div count

\* runPeriodical: go function(), and in it
\*   ticker := time.NewTicker(pingInterval)
\*   pingTargets := make([]string, len(*config.PingTargets)); copy(...)
RunPeriodical ==
    /\ Len(bursts) < MaxCalls
    /\ BurstStart(Len(bursts)) = stime
    /\ bursts' = Append(bursts, [targets |-> targetsN, next |-> 0,
                                 at |-> stime, starts |-> <<>>])
    /\ UNCHANGED <<stime, targetsN, pingInterval>>
    /\ UNCHANGED <<icmpVars, opsVars, reportVars, recvVars, parseVars>>

\* go pingRoutine(addr, config.PingConf); <-ticker.C
StartTask(b) ==
    /\ b \in DOMAIN bursts
    /\ Running(b)
    /\ bursts[b].at = stime
    /\ bursts' = [bursts EXCEPT ![b].next = @ + 1,
                                ![b].at = @ + pingInterval,
                                ![b].starts = Append(@, stime)]
    /\ UNCHANGED <<stime, targetsN, pingInterval>>
    /\ UNCHANGED <<icmpVars, opsVars, reportVars, recvVars, parseVars>>

\* updateConfig: a refresh with a target list of another length.  main
\* starts the periodical updateConfig after the schedulers.
RefreshTargets(count) ==
    /\ bursts # <<>>
    /\ count # targetsN
    /\ targetsN' = count
    /\ UNCHANGED <<stime, pingInterval, bursts>>
    /\ UNCHANGED <<icmpVars, opsVars, reportVars, recvVars, parseVars>>

\* Time passes.
SchedTick ==
    /\ ~Due
    /\ stime < MaxCalls * Frequency + Frequency
    /\ stime' = stime + 1
    /\ UNCHANGED <<targetsN, pingInterval, bursts>>
    /\ UNCHANGED <<icmpVars, opsVars, reportVars, recvVars, parseVars>>

(***************************************************************************)
(* cmd/planet: the report pipeline.  The first send of a report (sender),    *)
(* the intake of failed reports (deliveryFailed), the retry stages          *)
(* (flipFlopReporter with flipFlopSender) and DrainTrash.                   *)
(*                                                                          *)
(* Channels are numbered by level: level n, for n up to `stages`, is the    *)
(* pair of buffered channels stage n reads; level stages + 1 is the pair of *)
(* unbuffered channels DrainTrash reads.  Pusher 0 is deliveryFailed, which  *)
(* writes level 1; pusher n is stage n, which writes level n + 1.           *)
(***************************************************************************)
Reports == 1 .. MaxBurst
Levels == 1 .. MaxStages + 1
Pushers == 0 .. MaxStages
StageIDs == 1 .. MaxStages
\* len(r): the number of retry stages; 0 with -retry 0.
stages == Len(rc)
\* DrainTrash(procN, waitN) starts one goroutine per argument.
Drainers == {1, 2}

\* What client.Do returns: a response with a status code and a nil error, or
\* no response and an error.  Whatever made the request fail (the network: a
\* timeout or a refused connection; or the request itself, before anything
\* is sent: a report URL with an unsupported protocol scheme, an invalid
\* header value), http.Client.Do returns the error wrapped in a *url.Error.
SendErrors == {"timeout", "refused", "unsupportedScheme", "invalidHeader"}
NetworkFailures == {"timeout", "refused"}
SendOutcomes ==
    {[Err |-> "nil", StatusCode |-> c] : c \in {200, 500}}
        \cup {[Err |-> e, StatusCode |-> 0] : e \in SendErrors}
NotSent == [Err |-> "nil", StatusCode |-> 0]

\* netErr, ok := err.(net.Error): ok for every non-nil error client.Do
\* returns, since *url.Error has the methods of net.Error (Error, Timeout,
\* Temporary).
IsNetError(err) == err # "nil"

\* sender: where the report goes after client.Do
SenderRoute(outcome) ==
    IF IsNetError(outcome.Err) THEN "failedChannel"
    ELSE IF outcome.Err # "nil" THEN "discarded"
    ELSE IF outcome.StatusCode # 200 THEN "discarded"
    ELSE "delivered"

\* flipFlopSender: what happens to the report after client.Do
ResendRoute(outcome) ==
    IF IsNetError(outcome.Err) THEN "push"
    ELSE IF outcome.Err # "nil" THEN "dropped"
    ELSE IF outcome.StatusCode # 200 THEN "dropped"
    ELSE "redelivered"

\* What the retry stages leave alone.
stageVars == <<proc, rpc, ri, semaphore>>

\* reportChannel <- &report; report := <-reportChannel; go sender(...)
\* Reports are numbered in the order in which they reach reportChannel.
Submit(r) ==
    /\ report[r] = "created"
    /\ \A q \in Reports : q < r => report[q] # "created"
    /\ report' = [report EXCEPT ![r] = "sender"]
    /\ UNCHANGED <<firstSend, tries, resend, main, procN, waitN, sending, drain,
                   congestWarn, warned, rc, inProc, stageVars>>
    /\ UNCHANGED <<icmpVars, opsVars, schedVars, recvVars, parseVars>>

\* sender: client.Do returns.  With "failedChannel" the sender is at
\* failedChannel <- report, which waits for deliveryFailed.
Sender(r, outcome) ==
    /\ report[r] = "sender"
    /\ firstSend' = [firstSend EXCEPT ![r] = outcome]
    /\ tries' = [tries EXCEPT ![r] = Append(@, 0)]
    /\ report' = [report EXCEPT ![r] = SenderRoute(outcome)]
    /\ UNCHANGED <<resend, main, procN, waitN, sending, drain,
                   congestWarn, warned, rc, inProc, stageVars>>
    /\ UNCHANGED <<icmpVars, opsVars, schedVars, recvVars, parseVars>>

ChanOf(name) == IF name = "procN" THEN procN ELSE waitN
Other(name) == IF name = "procN" THEN "waitN" ELSE "procN"

\* The channels of the level were made without a capacity: main, 815-816 and
\* 841-842.
Unbuffered(level) == level = stages + 1

\* The DrainTrash goroutines that wait in report := <-channel on that channel
\* of the last level.
Receiving(name) == {g \in Drainers : drain[g].at = "recv" /\ drain[g].on = name}

\* A push that sends after the swap without looking at len(main).
PushFateUnchecked(p) ==
    IF Unbuffered(p + 1)
    THEN IF Receiving(main[p]) # {} THEN "trash" ELSE "sending"
    ELSE "queued"

\* The push of deliveryFailed and of flipFlopSender, by pusher p:
\*   select { case main <- report:
\*            default: main, full = full, main
\*                     if len(main) == 0 { main <- report } else { discard } }
\* A send on an unbuffered channel goes through at once when a receiver waits
\* on it; len of an unbuffered channel is 0, so after the swap the pusher
\* waits in main <- report ("sending").
PushFate(p) ==
    LET m == main[p]
    IN IF Unbuffered(p + 1)
       THEN IF Receiving(m) # {} THEN "trash" ELSE "sending"
       ELSE IF Len(ChanOf(m)[p + 1]) < rc[p + 1] THEN "queued"
            ELSE IF Len(ChanOf(Other(m))[p + 1]) = 0 THEN "queued"
            ELSE "congested"

\* A push that keeps its main.
PushNeverSwaps(p) == FALSE

\* main, full = full, main
PushSwaps(p) ==
    IF Unbuffered(p + 1)
    THEN Receiving(main[p]) = {}
    ELSE Len(ChanOf(main[p])[p + 1]) >= rc[p + 1]

MainAfter(p) == IF PushSwaps(p) THEN Other(main[p]) ELSE main[p]

\* The channel `name` of every level after the push, from its contents ch.
Pushed(p, r, name, ch) ==
    IF PushFate(p) = "queued" /\ MainAfter(p) = name
    THEN [ch EXCEPT ![p + 1] = Append(@, r)]
    ELSE ch

\* warnCongested: logs when congestWarn is false, and leaves it false.
WarnCongested == warned' = IF ~congestWarn THEN warned + 1 ELSE warned

\* The push by pusher p of report r, with the channels P and W (procN and
\* waitN after what the pusher took out of them).
Push(p, r, P, W) ==
    /\ main' = [main EXCEPT ![p] = MainAfter(p)]
    /\ procN' = Pushed(p, r, "procN", P)
    /\ waitN' = Pushed(p, r, "waitN", W)
    /\ sending' = [sending EXCEPT ![p] = IF PushFate(p) = "sending"
                                         THEN r ELSE 0]
    /\ IF PushFate(p) = "trash"
       THEN \E g \in Receiving(main[p]) :
               drain' = [drain EXCEPT ![g].at = "log"]
       ELSE UNCHANGED drain
    /\ IF PushFate(p) = "congested"
       THEN WarnCongested
       ELSE UNCHANGED warned
    /\ UNCHANGED congestWarn

\* deliveryFailed: report := <-failedChannel, and the push.
DeliveryFailed(r) ==
    /\ report[r] = "failedChannel"
    /\ sending[0] = 0
    /\ Push(0, r, procN, waitN)
    /\ report' = [report EXCEPT ![r] = PushFate(0)]
    /\ UNCHANGED <<firstSend, tries, resend, rc, inProc, stageVars>>
    /\ UNCHANGED <<icmpVars, opsVars, schedVars, recvVars, parseVars>>

(***************************************************************************)
(* cmd/planet: flipFlopReporter, stage n.  proc[n] names the channel of      *)
(* level n that the stage holds as proc; the other one is its wait.         *)
(***************************************************************************)
\* A receive that leaves the report in the channel.
TakeKeeps(ch, level) == ch
\* report := <-proc, semaphore = <-wait: the channel after the receive.
Take(ch, level) == [ch EXCEPT ![level] = Tail(@)]
\* The reports a channel holds.
InChan(ch) == {ch[k] : k \in DOMAIN ch}

\* What flipFlopSender does with report r at stage n after client.Do; P and
\* W are procN and waitN after the stage's receive.
FlipFlopSender(n, r, outcome, P, W) ==
    /\ tries' = [tries EXCEPT ![r] = Append(@, n)]
    /\ resend' = [resend EXCEPT ![r] = outcome]
    /\ IF ResendRoute(outcome) = "push"
       THEN /\ Push(n, r, P, W)
            /\ report' = [report EXCEPT ![r] = PushFate(n)]
       ELSE /\ procN' = P
            /\ waitN' = W
            /\ report' = [report EXCEPT ![r] = ResendRoute(outcome)]
            /\ UNCHANGED <<main, sending, drain, congestWarn, warned>>

\* flipFlopSender waits in main <- report.
Blocks(n, outcome) ==
    ResendRoute(outcome) = "push" /\ PushFate(n) = "sending"

\* case semaphore = <-wait: and timer.Stop()
ReporterWait(n) ==
    /\ n <= stages
    /\ rpc[n] = "select"
    /\ Len(ChanOf(Other(proc[n]))[n]) > 0
    /\ LET r == Head(ChanOf(Other(proc[n]))[n])
       IN /\ semaphore' = [semaphore EXCEPT ![n] = r]
          /\ report' = [report EXCEPT ![r] = "semaphore"]
    /\ procN' = IF proc[n] = "waitN" THEN Take(procN, n) ELSE procN
    /\ waitN' = IF proc[n] = "procN" THEN Take(waitN, n) ELSE waitN
    /\ ri' = [ri EXCEPT ![n] = 0]
    /\ rpc' = [rpc EXCEPT ![n] = "drainFull"]
    /\ inProc' = [inProc EXCEPT ![n] = InChan(ChanOf(proc[n])[n])]
    /\ UNCHANGED <<firstSend, tries, resend, main, sending, drain, congestWarn,
                   warned, rc, proc>>
    /\ UNCHANGED <<icmpVars, opsVars, schedVars, recvVars, parseVars>>

\* case <-timer.C: with len(proc) != 0.  With an empty proc the stage only
\* resets its timer.
ReporterTimer(n) ==
    /\ n <= stages
    /\ rpc[n] = "select"
    /\ Len(ChanOf(proc[n])[n]) # 0
    /\ ri' = [ri EXCEPT ![n] = 0]
    /\ rpc' = [rpc EXCEPT ![n] = "drainTimer"]
    /\ inProc' = [inProc EXCEPT ![n] = InChan(ChanOf(proc[n])[n])]
    /\ UNCHANGED <<report, firstSend, tries, resend, main, procN, waitN, sending,
                   drain, congestWarn, warned, rc, proc, semaphore>>
    /\ UNCHANGED <<icmpVars, opsVars, schedVars, recvVars, parseVars>>

\* for i := 0; i < len(proc); i++ { report := <-proc; flipFlopSender(...) }:
\* one pass through the body.
ReporterDrain(n, outcome) ==
    /\ n <= stages
    /\ rpc[n] \in {"drainFull", "drainTimer"}
    /\ ri[n] < Len(ChanOf(proc[n])[n])
    /\ FlipFlopSender(n, Head(ChanOf(proc[n])[n]), outcome,
                      IF proc[n] = "procN" THEN Take(procN, n) ELSE procN,
                      IF proc[n] = "waitN" THEN Take(waitN, n) ELSE waitN)
    /\ IF Blocks(n, outcome)
       THEN /\ rpc' = [rpc EXCEPT ![n] = IF @ = "drainFull" THEN "sendFull"
                                         ELSE "sendTimer"]
            /\ UNCHANGED ri
       ELSE /\ ri' = [ri EXCEPT ![n] = @ + 1]
            /\ UNCHANGED rpc
    /\ UNCHANGED <<firstSend, rc, inProc, proc, semaphore>>
    /\ UNCHANGED <<icmpVars, opsVars, schedVars, recvVars, parseVars>>

\* The loop's test i < len(proc) fails.
ReporterDrainEnd(n) ==
    /\ n <= stages
    /\ rpc[n] \in {"drainFull", "drainTimer"}
    /\ ~(ri[n] < Len(ChanOf(proc[n])[n]))
    /\ rpc' = [rpc EXCEPT ![n] = IF @ = "drainFull" THEN "semaphore"
                                 ELSE "select"]
    /\ ri' = [ri EXCEPT ![n] = 0]
    /\ inProc' = [inProc EXCEPT ![n] = {}]
    /\ UNCHANGED <<report, firstSend, tries, resend, main, procN, waitN, sending,
                   drain, congestWarn, warned, rc, proc, semaphore>>
    /\ UNCHANGED <<icmpVars, opsVars, schedVars, recvVars, parseVars>>

\* flipFlopSender(client, semaphore, main, full); semaphore = nil;
\* proc, wait = wait, proc
ReporterSemaphore(n, outcome) ==
    /\ n <= stages
    /\ rpc[n] = "semaphore"
    /\ FlipFlopSender(n, semaphore[n], outcome, procN, waitN)
    /\ IF Blocks(n, outcome)
       THEN /\ rpc' = [rpc EXCEPT ![n] = "sendSemaphore"]
            /\ UNCHANGED <<proc, semaphore>>
       ELSE /\ rpc' = [rpc EXCEPT ![n] = "select"]
            /\ proc' = [proc EXCEPT ![n] = Other(@)]
            /\ semaphore' = [semaphore EXCEPT ![n] = 0]
    /\ UNCHANGED <<firstSend, rc, inProc, ri>>
    /\ UNCHANGED <<icmpVars, opsVars, schedVars, recvVars, parseVars>>

(***************************************************************************)
(* cmd/planet: DrainTrash.  The goroutines share the loop variable channel: *)
(* each reads it when it comes to its receive, the first one possibly       *)
(* before the loop has moved on to waitN, every later read gives waitN.     *)
(***************************************************************************)
\* report := <-channel by goroutine g, from the pusher that waits in its send
\* on that channel; the pusher goes on.
DrainRecv(g, p) ==
    /\ sending[p] # 0
    /\ g \in Receiving(main[p])
    /\ report' = [report EXCEPT ![sending[p]] = "trash"]
    /\ sending' = [sending EXCEPT ![p] = 0]
    /\ drain' = [drain EXCEPT ![g].at = "log"]
    /\ IF p = 0
       THEN UNCHANGED stageVars
       ELSE /\ rpc' = [rpc EXCEPT ![p] =
                        IF @ = "sendFull" THEN "drainFull"
                        ELSE IF @ = "sendTimer" THEN "drainTimer"
                        ELSE "select"]
            /\ ri' = [ri EXCEPT ![p] = IF rpc[p] = "sendSemaphore"
                                       THEN @ ELSE @ + 1]
            /\ proc' = [proc EXCEPT ![p] = IF rpc[p] = "sendSemaphore"
                                           THEN Other(@) ELSE @]
            /\ semaphore' = [semaphore EXCEPT ![p] =
                               IF rpc[p] = "sendSemaphore" THEN 0 ELSE @]
    /\ UNCHANGED <<firstSend, tries, resend, main, procN, waitN, congestWarn,
                   warned, rc, inProc>>
    /\ UNCHANGED <<icmpVars, opsVars, schedVars, recvVars, parseVars>>

\* logW(...), and back to the receive, on the channel the loop variable now
\* holds.
DrainLog(g) ==
    /\ drain[g].at = "log"
    /\ drain' = [drain EXCEPT ![g] = [on |-> "waitN", at |-> "recv"]]
    /\ UNCHANGED <<report, firstSend, tries, resend, main, procN, waitN, sending,
                   congestWarn, warned, rc, inProc, stageVars>>
    /\ UNCHANGED <<icmpVars, opsVars, schedVars, recvVars, parseVars>>

\* init: the 2-minute ticker: <-ticker.C; congestWarn = false.  warned
\* counts the warnings logged since the ticker last fired.
ThrottleTick ==
    /\ congestWarn' = FALSE
    /\ warned' = 0
    /\ UNCHANGED <<report, firstSend, tries, resend, main, procN, waitN, sending,
                   drain, rc, inProc, stageVars>>
    /\ UNCHANGED <<icmpVars, opsVars, schedVars, recvVars, parseVars>>

(***************************************************************************)
(* Specifications                                                           *)
(***************************************************************************)
IdleICMP ==
    /\ clock = 0
    /\ counter = 0
    /\ queue = [k \in Seqs |-> NoRequest]
    /\ sink = <<>>
    /\ ret = "none"
    /\ dpc = "now"
    /\ now = 0
    /\ response = NoResponse
    /\ timeout = {}
    /\ delivered = {}

IdleOps ==
    /\ op = "none"
    /\ config = [Count |-> 0, MaxTTL |-> 0]
    /\ opc = "done"
    /\ i = 0
    /\ j = 0
    /\ results = <<>>
    /\ stat = PingStatInit(0)
    /\ hopStat = <<>>
    /\ minHop = 0
    /\ maxHop = 0
    /\ outstanding = 0

\* The pipeline before the first report, but for the retry configuration
\* and the channel the first DrainTrash goroutine receives on.
FreshReport ==
    /\ report = [r \in Reports |-> "created"]
    /\ firstSend = [r \in Reports |-> NotSent]
    /\ tries = [r \in Reports |-> <<>>]
    /\ resend = [r \in Reports |-> NotSent]
    /\ main = [p \in Pushers |-> "procN"]
    /\ procN = [l \in Levels |-> <<>>]
    /\ waitN = [l \in Levels |-> <<>>]
    /\ sending = [p \in Pushers |-> 0]
    /\ proc = [n \in StageIDs |-> "procN"]
    /\ rpc = [n \in StageIDs |-> "select"]
    /\ ri = [n \in StageIDs |-> 0]
    /\ semaphore = [n \in StageIDs |-> 0]
    /\ inProc = [n \in StageIDs |-> {}]
    /\ congestWarn = FALSE
    /\ warned = 0

IdleReport ==
    /\ FreshReport
    /\ rc = <<>>
    /\ drain = [g \in Drainers |-> [on |-> "waitN", at |-> "recv"]]

\* The scheduler before main starts it.
IdleSched ==
    /\ stime = 0
    /\ targetsN = 1
    /\ pingInterval = Frequency
    /\ bursts = <<>>

\* go ICMPv4Receiver(...); go ICMPv6Receiver(...)
IdleRecv ==
    /\ cancelled = FALSE
    /\ rcv = [f \in Families |-> [pc |-> "check", late |-> FALSE]]
    /\ readUntil = [f \in Families |-> 0]
    /\ readsAfter = [f \in Families |-> 0]
    /\ failed = [f \in Families |-> FALSE]
    /\ packet = NoPacket
    /\ pushed = NotPushed

\* The manager after GetICMPManager.
InitICMP == IdleICMP /\ IdleOps /\ IdleReport /\ IdleSched /\ IdleRecv

NextICMP ==
    \/ IssueCall
    \/ Tick
    \/ Dispatcher

SpecICMP == InitICMP /\ [][NextICMP]_vars

\* The dispatcher and the clock keep taking steps.
FairSpecICMP == SpecICMP /\ WF_vars(Dispatcher) /\ WF_vars(Tick)

\* The manager with its receivers, and a caller of Finish.
NextRecv ==
    \/ IssueCall
    \/ Tick
    \/ Dispatcher
    \/ \E f \in Families : Receiver(f)
    \/ Finish

SpecRecv == InitICMP /\ [][NextRecv]_vars

\* The dispatcher and the clock keep taking steps, and so does every
\* receiver task: its read returns at the deadline at the latest.
FairSpecRecv ==
    /\ SpecRecv
    /\ WF_vars(Dispatcher)
    /\ WF_vars(Tick)
    /\ \A f \in Families : WF_vars(Receiver(f))

\* Ping or MTR has been called with some configuration and has initialised
\* its statistics.
InitOps ==
    /\ IdleICMP
    /\ IdleReport
    /\ IdleSched
    /\ IdleRecv
    /\ op \in {"ping", "mtr"}
    /\ config \in Configs
    /\ op = "ping" => config.MaxTTL = 0
    /\ opc = "issue"
    /\ i = 0
    /\ j = 0
    /\ results = <<>>
    /\ stat = PingStatInit(config.Count)
    /\ hopStat = HopStatInit(config.MaxTTL)
    /\ minHop = config.MaxTTL
    /\ maxHop = 0
    /\ outstanding = 0

NextOps ==
    \/ \E dialOk, ttlOk \in BOOLEAN : PingIssue(dialOk, ttlOk)
    \/ \E result \in ProbeResults : PingRecv(result)
    \/ PingReturn
    \/ \E dialOk, ttlOk \in BOOLEAN : MTRIssue(dialOk, ttlOk)
    \/ \E result \in ProbeResults : MTRRecv(result)
    \/ MTRReturn

SpecOps == InitOps /\ [][NextOps]_vars

\* The run takes a step whenever it can: the manager delivers a result to
\* every sink it returned.
FairSpecOps == SpecOps /\ WF_vars(NextOps)

\* A run of Ping or MTR started by pingRoutine or mtrRoutine, with the
\* periodical updateConfig beside it.
NextRefresh ==
    \/ NextOps
    \/ \E c \in Configs : UpdateConfig(c)

SpecRefresh == InitOps /\ [][NextRefresh]_vars

\* main has fetched the configuration, computed pingInterval and slept
\* until the aligned start.
InitSched ==
    /\ IdleICMP
    /\ IdleOps
    /\ IdleReport
    /\ IdleRecv
    /\ stime = 0
    /\ targetsN \in TargetCounts
    /\ pingInterval = PingInterval(targetsN)
    /\ bursts = <<>>

NextSched ==
    \/ RunPeriodical
    \/ \E b \in 1 .. MaxCalls : StartTask(b)
    \/ \E count \in TargetCounts : RefreshTargets(count)
    \/ SchedTick

SpecSched == InitSched /\ [][NextSched]_vars

\* The retry configurations: -retry 0, or up to MaxStages stages with
\* capacities from 1 to Capacity.
RetryConfigs ==
    UNION {[1 .. k -> 1 .. Capacity] : k \in 0 .. MaxStages}

\* main has set up the retry flow and started DrainTrash; the first
\* DrainTrash goroutine has read the shared loop variable before or after
\* the loop moved on.
InitReport ==
    /\ IdleICMP
    /\ IdleOps
    /\ IdleSched
    /\ IdleRecv
    /\ FreshReport
    /\ rc \in RetryConfigs
    /\ drain \in [Drainers -> [on : {"procN", "waitN"}, at : {"recv"}]]
    /\ drain[2].on = "waitN"

NextReport ==
    \/ \E r \in 1 .. MaxReports : Submit(r)
    \/ \E r \in Reports, outcome \in SendOutcomes : Sender(r, outcome)
    \/ \E r \in Reports : DeliveryFailed(r)
    \/ \E n \in StageIDs : ReporterWait(n)
    \/ \E n \in StageIDs : ReporterTimer(n)
    \/ \E n \in StageIDs, outcome \in SendOutcomes : ReporterDrain(n, outcome)
    \/ \E n \in StageIDs : ReporterDrainEnd(n)
    \/ \E n \in StageIDs, outcome \in SendOutcomes :
          ReporterSemaphore(n, outcome)
    \/ \E g \in Drainers, p \in Pushers : DrainRecv(g, p)
    \/ \E g \in Drainers : DrainLog(g)
    \/ ThrottleTick

SpecReport == InitReport /\ [][NextReport]_vars

\* The star is out of reach when the reports are first sent: every first
\* send times out.  A resend times out too or reaches the star.  Retries
\* are disabled or there is one retry stage.
TimedOut == [Err |-> "timeout", StatusCode |-> 0]
Accepted == [Err |-> "nil", StatusCode |-> 200]

InitCongest ==
    /\ IdleICMP
    /\ IdleOps
    /\ IdleSched
    /\ IdleRecv
    /\ FreshReport
    /\ rc \in {c \in RetryConfigs : Len(c) <= 1}
    /\ drain \in [Drainers -> [on : {"procN", "waitN"}, at : {"recv"}]]
    /\ drain[2].on = "waitN"

NextCongest ==
    \/ \E r \in Reports : Submit(r)
    \/ \E r \in Reports : Sender(r, TimedOut)
    \/ \E r \in Reports : DeliveryFailed(r)
    \/ \E n \in StageIDs : ReporterWait(n)
    \/ \E n \in StageIDs : ReporterTimer(n)
    \/ \E n \in StageIDs, outcome \in {TimedOut, Accepted} :
          ReporterDrain(n, outcome)
    \/ \E n \in StageIDs : ReporterDrainEnd(n)
    \/ \E n \in StageIDs, outcome \in {TimedOut, Accepted} :
          ReporterSemaphore(n, outcome)
    \/ \E g \in Drainers, p \in Pushers : DrainRecv(g, p)
    \/ \E g \in Drainers : DrainLog(g)
    \/ ThrottleTick

SpecCongest == InitCongest /\ [][NextCongest]_vars

(***************************************************************************)
(* Claims about the ICMP manager                                            *)
(***************************************************************************)
InTable(p) == \E k \in Seqs : queue[k] # NoRequest /\ queue[k].Sink = p
ProbeTimeout(r) == r.Deadline - r.IssueTime

\* C1: every sink an Issue call returned gets exactly one result: at any
\* moment it has received one result, or none yet while its request is still
\* in the outstanding-probe table, from where the dispatcher will serve it.
C1_ExactlyOneResult ==
    \A p \in DOMAIN sink : sink[p] = 1 \/ (sink[p] = 0 /\ InTable(p))

C3_EventuallyResolved ==
    \A p \in 1 .. MaxProbes :
        InTable(p) ~> (p \in DOMAIN sink /\ sink[p] >= 1 /\ ~InTable(p))

IssueStep(isIPAddr, dialOk, ttlOk) ==
    \E writeOk \in BOOLEAN, dest \in Targets, id \in ProbeIDs,
       duration \in Timeouts :
        Issue(isIPAddr, dialOk, ttlOk, writeOk, dest, id, duration)

\* C4: an Issue call whose address is no IP address, whose socket cannot be
\* opened or whose TTL / hop limit cannot be set returns nil, creates no
\* sink and leaves the outstanding-probe table as it was.
C4_FailedIssueLeavesTable ==
    [][\A isIPAddr, dialOk, ttlOk \in BOOLEAN :
          ((~isIPAddr \/ ~dialOk \/ ~ttlOk)
              /\ IssueStep(isIPAddr, dialOk, ttlOk))
          => (ret' = "nil" /\ queue' = queue /\ sink' = sink)]_vars

\* An Issue call has failed while a probe was outstanding.
C4_Witness ==
    /\ ret = "nil"
    /\ \E k \in Seqs : queue[k] # NoRequest

(***************************************************************************)
(* Claims about Ping and MTR                                                *)
(***************************************************************************)
\* C5: Ping and MTR always return to their caller, whatever Issue answers:
\* every run eventually reaches its return.
C5_AlwaysReturns == <>(opc = "done")

RECURSIVE SumLatency(_)
SumLatency(rs) ==
    IF rs = <<>> THEN 0 ELSE Head(rs).Latency + SumLatency(Tail(rs))

Replies(rs) == SelectSeq(rs, LAMBDA r : r.Code = 257)
Latencies(rs) == {rs[k].Latency : k \in DOMAIN rs}
Least(S) == CHOOSE x \in S : \A y \in S : x <= y
Greatest(S) == CHOOSE x \in S : \A y \in S : x >= y

PingDone == op = "ping" /\ opc = "done"
MTRDone == op = "mtr" /\ opc = "done"

\* C6: a Ping that has returned reports total = count and drop = the number
\* of results whose code is not 257; its sum, min and max are those of the
\* code-257 latencies; timeout is true exactly when drop = total, and then
\* min is 0.
C6_PingCounts ==
    PingDone =>
        LET replies == Replies(results)
        IN /\ Len(results) = config.Count
           /\ stat.Total = config.Count
           /\ stat.Drop = Len(results) - Len(replies)
           /\ stat.Timeout <=> stat.Drop = stat.Total
           /\ stat.Timeout => stat.Min = 0 /\ stat.Max = 0 /\ stat.Avg.Num = 0
           /\ ~stat.Timeout =>
                 /\ stat.Avg.Num = SumLatency(replies)
                 /\ stat.Min = Least(Latencies(replies))
                 /\ stat.Max = Greatest(Latencies(replies))

\* A Ping has returned after an Echo Reply and a reply that is neither an
\* Echo Reply nor a timeout.
C6_Witness ==
    /\ PingDone
    /\ \E k \in DOMAIN results : results[k].Code = 257
    /\ \E k \in DOMAIN results : results[k].Code \notin {256, 257}

\* C7: the hop_count of an MTR result is the number of entries of its hop
\* list.
C7_HopCountIsLength == MTRDone => stat.HopCount = Len(stat.Stat)

\* C8: the hop list of an MTR result has at most max_ttl entries, and its
\* entries carry the indexes 1, 2, ..., n in order.
C8_HopListIndexes ==
    MTRDone =>
        /\ Len(stat.Stat) <= config.MaxTTL
        /\ \A k \in DOMAIN stat.Stat : stat.Stat[k].Index = k

\* An MTR has returned a hop list of max_ttl entries, more than one.
C8_Witness ==
    /\ MTRDone
    /\ config.MaxTTL > 1
    /\ Len(stat.Stat) = config.MaxTTL

\* min <= avg <= max for statistics s with drop < total, over integers
Ordered(s) ==
    LET succeed == s.Total - s.Drop
    IN s.Drop < s.Total =>
          /\ s.Avg.Den = succeed
          /\ s.Min * succeed <= s.Avg.Num
          /\ s.Avg.Num <= s.Max * succeed

\* C9: in every Ping result and every hop of an MTR result with
\* drop < total, min * succeed <= sum of latencies <= max * succeed, with
\* succeed = total - drop.
C9_MinAvgMax ==
    /\ PingDone => Ordered(stat)
    /\ MTRDone => \A k \in DOMAIN stat.Stat : Ordered(stat.Stat[k])

\* Statistics with a drop and with min < avg < max.
Spread(s) ==
    /\ 0 < s.Drop
    /\ s.Drop < s.Total
    /\ s.Min * s.Avg.Den < s.Avg.Num
    /\ s.Avg.Num < s.Max * s.Avg.Den

\* An MTR has returned a hop with a drop and with min < avg < max.
C9_Witness == MTRDone /\ \E k \in DOMAIN stat.Stat : Spread(stat.Stat[k])

(***************************************************************************)
(* Claims about the report pipeline                                         *)
(***************************************************************************)
InRetry(r) ==
    report[r] \in {"failedChannel", "queued", "congested", "semaphore",
                   "sending", "trash", "dropped", "redelivered"}

\* C10: a report enters the retry pipeline only when its first send failed
\* with a transient network failure; after a status other than 200 or a
\* non-network error it is dropped, after a 200 it is delivered.
C10_RetryOnlyNetworkFailure ==
    \A r \in Reports :
        /\ InRetry(r) => firstSend[r].Err \in NetworkFailures
        /\ (firstSend[r].Err = "nil" /\ firstSend[r].StatusCode = 200)
              => report[r] = "delivered"
        /\ (firstSend[r].Err \notin NetworkFailures \cup {"nil"}
               \/ firstSend[r].StatusCode \notin {0, 200})
              => report[r] = "discarded"

\* Every send of the report so far was made by the sender and then by the
\* stages 1, 2, ... in turn: tries[r] = <<0, 1, ..., m>> with m <= stages.
SentForward(r) ==
    /\ Len(tries[r]) <= stages + 1
    /\ \A k \in 1 .. Len(tries[r]) : tries[r][k] = k - 1

\* The report has been resent by a stage.
Retried(r) == Len(tries[r]) >= 2

\* The report is in the hands of the pipeline after its latest send: in a
\* channel or on its way into one, held as a semaphore, trash, or discarded
\* by the push.
HandedOn(r) ==
    report[r] \in {"queued", "semaphore", "sending", "trash", "congested"}

\* C11: a report moves through the retry stages only forward, each stage
\* resends it at most once, so it is sent at most stages + 1 times; a resend
\* that succeeds or fails unrecoverably removes the report, and only a
\* resend that fails with a transient network failure hands it on.
C11_ForwardOnly ==
    \A r \in Reports :
        /\ SentForward(r)
        /\ Retried(r) =>
            /\ HandedOn(r) => resend[r].Err \in NetworkFailures
            /\ resend[r].Err \notin NetworkFailures => ~HandedOn(r)

\* The part of C11 about the order and the number of the sends.
C11_SentForward == \A r \in Reports : SentForward(r)

\* A report has been sent by the sender and by every stage of a pipeline of
\* two stages.
C11_Witness ==
    \E r \in Reports : stages = 2 /\ tries[r] = <<0, 1, 2>>

\* A DrainTrash goroutine waits, or will wait after its log, in a receive on
\* the channel `name` of the last level.
WillReceive(name) ==
    \E g \in Drainers :
        \/ drain[g].at = "recv" /\ drain[g].on = name
        \/ drain[g].at = "log" /\ name = "waitN"

\* C12: the hand-off to trash never blocks for ever: whenever the last stage,
\* or deliveryFailed with -retry 0, waits in its send of a report, a
\* DrainTrash goroutine receives or will receive on that channel, so the
\* report becomes trash and the pusher goes on.
C12_TrashNeverBlocks ==
    \A p \in Pushers : sending[p] # 0 => WillReceive(main[p])

\* The step discards report r as congested.
Discards(r) == report[r] # "congested" /\ report'[r] = "congested"

\* The level report r is pushed to by the step: level 1 by deliveryFailed,
\* level n + 1 by stage n, which has just added itself to tries.
PushedTo(r) == Len(tries'[r])

\* C13: a report pushed to a retry stage is discarded as congested only when
\* both channels of the stage are full at the moment of the push; with a free
\* slot in either of them it is accepted.
C13_DiscardOnlyWhenFull ==
    [][\A r \in Reports :
          Discards(r) => /\ Len(procN[PushedTo(r)]) = rc[PushedTo(r)]
                         /\ Len(waitN[PushedTo(r)]) = rc[PushedTo(r)]]_vars

\* Three reports have been pushed to one stage of capacity 1 before the
\* stage has received any of them.
ThreePushed ==
    /\ rc = <<1>>
    /\ \A r \in Reports : Len(tries[r]) <= 1 /\ report[r] # "semaphore"
    /\ Cardinality({r \in Reports : report[r] \in {"queued", "congested"}}) = 3

\* The second part of C13: of three failing reports pushed in rapid
\* succession to one stage of capacity 1, exactly one is discarded.
C13_OneOfThreeDiscarded ==
    ThreePushed => Cardinality({r \in Reports : report[r] = "congested"}) = 1

\* C14: the congestion advisory is one-shot: between two firings of the
\* throttle ticker it is logged at most once, however many reports are
\* discarded as congested.
C14_WarnedOncePerWindow == warned <= 1

\* The reports in the two channels of a level.
Held(level) == Len(procN[level]) + Len(waitN[level])

RECURSIVE SumHeld(_)
SumHeld(level) == IF level = 0 THEN 0 ELSE Held(level) + SumHeld(level - 1)

RECURSIVE SumCapacity(_)
SumCapacity(n) == IF n = 0 THEN 0 ELSE rc[n] + SumCapacity(n - 1)

\* C15: with k stages of capacities c1 .. ck the channels of the pipeline
\* never hold more than 2 * (c1 + ... + ck) reports.
C15_TotalHeld == SumHeld(MaxStages + 1) <= 2 * SumCapacity(stages)

\* Every channel of a pipeline with a stage is full, with reports left over.
C15_Witness ==
    /\ stages >= 1
    /\ SumHeld(MaxStages + 1) = 2 * SumCapacity(stages)
    /\ \E r \in Reports : report[r] = "congested"

\* The reports stage n holds for a resend: those in its two channels and
\* the semaphore it has taken out of wait.
Awaiting(n) == Held(n) + (IF semaphore[n] # 0 THEN 1 ELSE 0)

\* C16: each retry stage holds at most capacity reports awaiting a retry
\* attempt, counted over both of its channels.
C16_StageHoldsCapacity == \A n \in 1 .. stages : Held(n) <= rc[n]

\* C16 as the code has it: each of the two channels of a stage holds at most
\* capacity reports, so the stage holds at most 2 * capacity in its channels,
\* and one more as the semaphore.
C16_StageHoldsTwiceCapacity ==
    \A n \in 1 .. stages :
        /\ Len(procN[n]) <= rc[n]
        /\ Len(waitN[n]) <= rc[n]
        /\ Awaiting(n) <= 2 * rc[n] + 1

\* A stage with both channels full and a semaphore in hand.
C16_Witness ==
    \E n \in 1 .. stages : Awaiting(n) = 2 * rc[n] + 1

(***************************************************************************)
(* Claims about the configuration refresh                                   *)
(***************************************************************************)
\* C17: a run of Ping or MTR uses one configuration from start to end: a
\* refresh during the run changes neither the count nor the max_ttl the run
\* goes by, so a Ping that has returned reports as its total the number of
\* probes it issued, and an MTR stays within the hops it set up.
C17_OneSnapshot ==
    /\ PingDone => stat.Total = Len(results)
    /\ opc # "panic"

(***************************************************************************)
(* Claims about the scheduler                                               *)
(***************************************************************************)
\* C18: every Frequency the scheduler starts a burst; the burst starts one
\* task for each target of the list it captured, the first at the start of
\* the burst and each next one Frequency / N later, with N the number of
\* targets of the captured list.
C18_BurstSpacing ==
    \A b \in DOMAIN bursts :
        LET s == bursts[b].starts
        IN /\ Len(s) <= bursts[b].targets
           /\ ~Running(b) => Len(s) = bursts[b].targets
           /\ Len(s) >= 1 => s[1] = BurstStart(b - 1)
           /\ \A k \in 1 .. Len(s) - 1 :
                 s[k + 1] - s[k] = Frequency \div bursts[b].targets

(***************************************************************************)
(* Claims about the receivers                                               *)
(***************************************************************************)
NoReceiver == \A f \in Families : rcv[f].pc = "gone"

\* A receiver task started after the cancellation is at its ctx.Done() test
\* or has returned: it opens no socket, reads nothing and starts no
\* successor.  At most one read of the family returns after the cancellation.
StopsAtCheck(f) ==
    /\ rcv[f].late => rcv[f].pc \in {"check", "gone"}
    /\ readsAfter[f] <= 1

\* C19: after Finish each family's receiver chain stops: the receiver that
\* is reading at the cancellation completes at most that read, every receiver
\* task started after the cancellation returns without opening a socket and
\* without a successor, and eventually no receiver task is alive.
C19_ChainStops ==
    /\ [](\A f \in Families : StopsAtCheck(f))
    /\ cancelled ~> NoReceiver

\* Both chains have ended after a cancellation, one of them with a task that
\* was started after it.
C19_Witness ==
    /\ cancelled
    /\ NoReceiver
    /\ \E f \in Families : rcv[f].late /\ readsAfter[f] = 1 /\ ~failed[f]

\* The request of sink p is in the table and was issued after its family's
\* receiver had failed to open its socket.
OrphanInTable(p) ==
    \E k \in Seqs :
        queue[k] # NoRequest /\ queue[k].Sink = p /\ queue[k].Orphan

\* The part of C20 about what is delivered: a chain that failed to open its
\* socket has ended, and a probe issued after that gets code 256, or a code
\* out of a packet the chain had read before it ended.
C20_NoResponseAfterFailure ==
    /\ \A f \in Families : failed[f] => rcv[f].pc = "gone"
    /\ \A d \in delivered :
          d.Request.Orphan =>
             \/ d.Result.Code = 256
             \/ d.Result.Received <= readUntil[FamilyOf(d.Request.TargetIP)]

\* C20: when a receiver fails to open its socket its chain ends without a
\* successor, the manager still accepts probes, and every probe of that
\* family issued afterwards resolves, with code 256.
C20_FailedFamilyTimesOut ==
    /\ []C20_NoResponseAfterFailure
    /\ \A p \in 1 .. MaxProbes :
          OrphanInTable(p) ~> (p \in DOMAIN sink /\ sink[p] >= 1)

\* With the v4 chain ended by the failure, a v4 probe has been accepted and
\* has timed out, and a v6 probe has got an Echo Reply read after the
\* failure.
C20_OtherFamilyReplies ==
    /\ failed["v4"]
    /\ ~failed["v6"]
    /\ \E d \in delivered :
          /\ ~IsV4(d.Request.TargetIP)
          /\ d.Result.Code = 257
          /\ d.Result.Received > readUntil["v4"]

\* A probe issued after the failure of its family's receiver has timed out.
C20_OrphanTimesOut ==
    \E d \in delivered : d.Request.Orphan /\ d.Result.Code = 256

(***************************************************************************)
(* C21.  The code of every delivered result is in 0 .. 15 or is one of      *)
(* 256, 257, 258, whatever packet the receivers parsed, a Destination       *)
(* Unreachable with any code byte included.                                 *)
(***************************************************************************)
SpecCodes == (0 .. 15) \cup {256, 257, 258}

\* C21 as claimed: every result the dispatcher delivers carries a code in
\* 0 .. 15 or one of 256, 257, 258.
C21_CodeInRange == \A d \in delivered : d.Result.Code \in SpecCodes

\* C21 as amended: the code of every delivered result is a code byte
\* (0 .. 255, the code of a Destination Unreachable) or one of 256, 257, 258.
C21_CodeIsByteOrSpecial ==
    \A d \in delivered : d.Result.Code \in (0 .. 255) \cup {256, 257, 258}

\* A Destination Unreachable with a code byte beyond 15 is delivered with
\* that byte as the result's code.
C21_CodePassedOn ==
    \E d \in delivered : d.Result.Code = ReceiverCode("DstUnreach", 16)

(***************************************************************************)
(* C22.  A response is delivered to the outstanding probe with its seq if   *)
(* and only if its (id, target IP) is the probe's; a response with the      *)
(* probe's seq and another id or target IP delivers nothing and leaves the  *)
(* entry, and the probe is still completed afterwards.                      *)
(***************************************************************************)
\* The response the dispatcher has received has the identifier of request r.
SameIdentifier(r, resp) == resp.ID = r.ID /\ resp.TargetIP = r.TargetIP

\* The dispatcher has taken a response with the seq of an outstanding probe
\* and another identifier.
Refused ==
    /\ dpc = "sweep"
    /\ response # NoResponse
    /\ "ID" \in DOMAIN response
    /\ ConMapExists(queue, response.Seq)
    /\ ~SameIdentifier(queue[response.Seq], response)

\* The step in which the dispatcher receives a response: the probe with the
\* response's seq gets a result if and only if the identifiers are equal, and
\* otherwise neither the table nor any sink changes.
ReceiveStep ==
    dpc = "select" /\ response' # NoResponse =>
        IF ConMapExists(queue, response'.Seq)
        THEN LET request == queue[response'.Seq]
             IN IF SameIdentifier(request, response')
                THEN /\ dpc' = "remove"
                     /\ sink'[request.Sink] = sink[request.Sink] + 1
                     /\ \E d \in delivered' : d.Request = request
                     /\ queue' = queue
                ELSE /\ dpc' = "sweep"
                     /\ sink' = sink
                     /\ queue' = queue
                     /\ delivered' = {}
        ELSE /\ dpc' = "sweep"
             /\ sink' = sink
             /\ queue' = queue

\* The sweep that follows a refused response times the probe out if its
\* deadline has passed.
SweepAfterRefusal ==
    Refused /\ Passed(queue[response.Seq], now) /\ dpc' # dpc =>
        /\ sink'[queue[response.Seq].Sink] = sink[queue[response.Seq].Sink] + 1
        /\ \E d \in delivered' :
              d.Request = queue[response.Seq] /\ d.Result.Code = 256

\* C22: a response is delivered to the probe with its seq exactly when the
\* (id, target IP) pairs are equal; a refused response leaves the entry in
\* the table, where the timeout sweep still completes the probe.
C22_DeliverIffMatch ==
    [][ReceiveStep]_vars /\ [][SweepAfterRefusal]_vars

\* A response with the seq of an outstanding probe was refused, and the
\* probe is still in the table with no result.
C22_Witness ==
    /\ Refused
    /\ sink[queue[response.Seq].Sink] = 0

\* A refused response is followed by the sweep that times the probe out.
C22_RefusedThenTimedOut ==
    Refused /\ Passed(queue[response.Seq], now)

(***************************************************************************)
(* C23.  A matching response processed in an iteration whose now is later   *)
(* than the probe's deadline is delivered as a timeout (256), even when     *)
(* the packet's receive timestamp is not later than the deadline.           *)
(***************************************************************************)
\* The dispatcher has just delivered a response, in an iteration that began
\* after the deadline of the probe.
DeliveredLate(d) == dpc = "remove" /\ d \in delivered /\ Passed(d.Request, now)

\* C23 as claimed: a response delivered in an iteration whose now is later
\* than the probe's deadline gives a result with code 256.
C23_LateIterationTimesOut ==
    \A d \in delivered : DeliveredLate(d) => d.Result.Code = 256

\* C23 as amended: the receive timestamp of the response decides.  The result
\* of a delivered response has code 256 if and only if the response was
\* stamped after the probe's deadline, whenever the iteration began.
C23_StampDecides ==
    \A d \in delivered :
        dpc = "remove" =>
            (d.Result.Code = 256 <=> Passed(d.Request, d.Result.Received))

\* A response stamped no later than the deadline was delivered with its own
\* code in an iteration that began after the deadline.
C23_DeliveredWithCode ==
    \E d \in delivered :
        /\ DeliveredLate(d)
        /\ ~Passed(d.Request, d.Result.Received)
        /\ d.Result.Code = 257

(***************************************************************************)
(* C24.  Issue never overwrites an entry of the outstanding-probe table:    *)
(* when the seq it draws is the key of an outstanding probe, the earlier    *)
(* probe keeps its entry and still gets its own result.                     *)
(***************************************************************************)
\* The step is an Issue call that returned a sink.
Issued == Len(sink') = Len(sink) + 1

\* C24: an Issue call leaves every entry that was in the table as it was.
C24_IssueKeepsEntries ==
    [][Issued => \A k \in Seqs : ConMapExists(queue, k) => queue'[k] = queue[k]]_vars

\* An outstanding probe without a result is no longer in the table, and the
\* entry under its seq is that of a later probe.
C24_EntryReplaced ==
    \E p \in DOMAIN sink :
        /\ sink[p] = 0
        /\ ~InTable(p)
        /\ \E k \in Seqs : ConMapExists(queue, k) /\ queue[k].Sink > p

(***************************************************************************)
(* C25.  After the probing rounds maxHop is one past the largest TTL at     *)
(* which a non-timeout reply (Time Exceeded included) was seen, so hops     *)
(* that answered are in the output even if no terminal reply arrived.       *)
(***************************************************************************)
\* The hops (numbered from 0) at which a reply other than a timeout was
\* recorded.
Answered == {n \in 0 .. Len(hopStat) - 1 : hopStat[n + 1].IP # {}}

\* One past the largest hop that answered; 0 if none did.
PastLastAnswer ==
    IF Answered = {}
    THEN 0
    ELSE 1 + CHOOSE n \in Answered : \A m \in Answered : m <= n

\* C25: when MTR has returned, maxHop (as the rounds left it) is one past the
\* largest TTL at which a non-timeout reply was seen.
C25_MaxHopPastLastReply == MTRDone => maxHop = PastLastAnswer

\* maxHop is never beyond the last hop that answered.
C25_MaxHopAtMostLastReply == MTRDone => maxHop <= PastLastAnswer

\* Hops answered with Time Exceeded, no terminal reply arrived, and the list
\* MTR returned is empty.
C25_HopsLost == MTRDone /\ Answered # {} /\ maxHop = 0 /\ stat.Stat = <<>>

(***************************************************************************)
(* C26.  Tail trimming walks the TTLs from maxHop-1 down to minHop+1 and    *)
(* removes a TTL if and only if all its probes were drops or its set of     *)
(* responders, compared by (IP, code), is that of the preceding TTL; it     *)
(* stops at the first TTL that meets neither condition.                     *)
(***************************************************************************)
\* The trimming of the claim, from hop n down: the value of maxHop after it.
RECURSIVE TrimByIPAndCode(_, _, _, _)
TrimByIPAndCode(s, n, lo, hi) ==
    IF n <= lo
    THEN hi
    ELSE IF s[n + 1].Drop = s[n + 1].Total \/ s[n + 1].IP = s[n].IP
         THEN TrimByIPAndCode(s, n - 1, lo, n)
         ELSE hi

\* The hops the trimming of the claim keeps.
KeptByIPAndCode == TrimByIPAndCode(hopStat, maxHop - 1, minHop, maxHop)

\* C26: the list MTR returns has the hops that trimming by drops and by
\* equality of the (IP, code) sets keeps.
C26_TrimmedByIPAndCode ==
    MTRDone => Len(stat.Stat) = Len(BuildStat(hopStat, KeptByIPAndCode))

\* The trimming never removes a hop below minHop + 1.
C26_KeepsUpToMinHop ==
    MTRDone /\ minHop < maxHop => Trim(hopStat, minHop, maxHop) > minHop

\* A hop was removed although its responders differ from those of the
\* preceding hop.
C26_RemovedUnequalHop ==
    /\ MTRDone
    /\ maxHop = 2
    /\ Len(stat.Stat) = 1
    /\ hopStat[2].Drop < hopStat[2].Total
    /\ hopStat[2].IP # hopStat[1].IP

(***************************************************************************)
(* C27.  Within one MTR round no probe with a larger TTL follows a reply    *)
(* whose code is neither 256 nor 258; a timeout or a Time Exceeded at TTL   *)
(* t is followed by the probe at TTL t + 1 while t < max_ttl.  Hence per    *)
(* hop drop <= total <= count, and total never increases with the TTL.      *)
(***************************************************************************)
\* MTR receives a result in this step.
MTRReceives == op = "mtr" /\ opc = "recv" /\ opc' = "issue"

\* What the step recorded at the hop it probed: a drop, or the responders
\* that are new.
NewDrop == hopStat'[j + 1].Drop = hopStat[j + 1].Drop + 1
NewResponders == hopStat'[j + 1].IP \ hopStat[j + 1].IP

\* The round ends and the next one starts at TTL 1.
RoundEnds == i' = i + 1 /\ j' = 0
\* The round goes on with the next TTL.
RoundGoesOn == i' = i /\ j' = j + 1

\* After a reply that is neither a timeout nor a Time Exceeded the round
\* ends; after a timeout or a Time Exceeded the next TTL is probed, unless
\* the TTL was max_ttl.
RoundStep ==
    MTRReceives =>
        /\ (\E k \in NewResponders : k.Code # 258) => RoundEnds
        /\ NewDrop \/ (\E k \in NewResponders : k.Code = 258) =>
              IF j + 1 < config.MaxTTL THEN RoundGoesOn ELSE RoundEnds

\* The probe MTR issues has the TTL the round has come to.
MTRIssueStep ==
    op = "mtr" /\ opc = "issue" /\ opc' \in {"recv", "blocked"} =>
        /\ hopStat'[j + 1].Total = hopStat[j + 1].Total + 1
        /\ \A n \in DOMAIN hopStat : n # j + 1 => hopStat'[n] = hopStat[n]

\* Per hop drop <= total <= count, and total does not increase with the TTL.
HopTotals ==
    op = "mtr" =>
        /\ \A n \in DOMAIN hopStat :
              /\ hopStat[n].Drop <= hopStat[n].Total
              /\ hopStat[n].Total <= config.Count
        /\ \A n \in 1 .. Len(hopStat) - 1 :
              hopStat[n + 1].Total <= hopStat[n].Total

\* C27: a terminal reply ends the round, a timeout or a Time Exceeded leads
\* to the probe at the next TTL, and so drop <= total <= count per hop with
\* totals that do not increase with the TTL.
C27_RoundStopsAtTerminal ==
    [][RoundStep]_vars /\ [][MTRIssueStep]_vars /\ []HopTotals

\* MTR has returned from two rounds at least: one was ended at TTL 1 by a
\* terminal reply, another went on to TTL 2 after a timeout at TTL 1.
C27_Witness ==
    /\ MTRDone
    /\ Len(hopStat) >= 2
    /\ minHop = 0
    /\ hopStat[1].Drop > 0
    /\ hopStat[2].Total > 0
    /\ hopStat[2].Total < hopStat[1].Total

(***************************************************************************)
(* C28.  Within one Ping or MTR run at most one probe is outstanding at     *)
(* any time: the next probe is issued only after the result of the          *)
(* previous one has been received.                                          *)
(***************************************************************************)
\* The run issues a probe in this step.
IssuesProbe == outstanding' = outstanding + 1
\* The run receives a result in this step.
ReceivesResult == outstanding' = outstanding - 1

\* C28: a run has at most one probe outstanding, and it issues a probe only
\* when it has received the results of all the probes it issued before.
C28_OneProbeOutstanding ==
    /\ [](outstanding \in {0, 1})
    /\ [][IssuesProbe => outstanding = 0]_vars
    /\ [][ReceivesResult => outstanding = 1]_vars
    /\ [](op = "ping" /\ outstanding = 0 => Len(results) = i)

\* A run has received the results of two probes and waits for that of the
\* third.
C28_Witness ==
    /\ outstanding = 1
    /\ \/ op = "ping" /\ Len(results) = 2
       \/ op = "mtr" /\ i = 1 /\ j = 0 /\ hopStat[1].Total = 2

(***************************************************************************)
(* C29.  A retry stage that is triggered, by its timer with a non-empty     *)
(* proc or by an overload signal, retries in that pass every report that    *)
(* was in proc at that moment: none of them is still queued in the stage    *)
(* when the pass ends.                                                      *)
(***************************************************************************)
\* The stage is in the drain loop of a pass, or in a send of that loop.
InDrainLoop(pc) == pc \in {"drainFull", "drainTimer", "sendFull", "sendTimer"}

\* Stage n leaves the drain loop of its pass in this step.
PassEnds(n) == InDrainLoop(rpc[n]) /\ ~InDrainLoop(rpc'[n])

\* The reports that were in proc when the pass was triggered and are still
\* in that channel.
LeftInProc(n) == inProc[n] \cap InChan(ChanOf(proc[n])[n])

\* C29: when the drain loop of a pass ends, no report that was in proc when
\* the pass was triggered is still in proc.
C29_PassRetriesAll ==
    [][\A n \in 1 .. stages : PassEnds(n) => LeftInProc(n) = {}]_vars

\* The drain loop takes the reports of proc from its head: what is left of
\* the reports that were there at the trigger is never more than half of
\* them, rounded down.
C29_PassRetriesHalf ==
    [][\A n \in 1 .. stages :
          PassEnds(n) =>
              2 * Cardinality(LeftInProc(n)) <= Cardinality(inProc[n])]_vars

\* The third failing push has triggered the first stage with reports 1 and 2
\* in proc; the stage has resent report 1, holds report 3 as the semaphore
\* after its drain loop, and report 2 is still in proc.
C29_SecondReportLeft ==
    /\ stages >= 1
    /\ rc[1] = 2
    /\ rpc[1] = "semaphore"
    /\ semaphore[1] = 3
    /\ tries[1] = <<0, 1>>
    /\ tries[2] = <<0>>
    /\ ChanOf(proc[1])[1] = <<2>>

(***************************************************************************)
(* C30.  A retry stage starts a pass only when its timer fires or when      *)
(* upstream found the stage's current queue full: the upstream pusher and   *)
(* the stage agree on which queue is proc, so a report pushed while         *)
(* upstream's current queue had room never triggers a pass.                 *)
(***************************************************************************)
\* Stage n waits in its select and no overload signal is on its way: the
\* channel it holds as wait is empty.
AtRest(n) == rpc[n] = "select" /\ Len(ChanOf(Other(proc[n]))[n]) = 0

\* C30: whenever a stage is at rest, the channel its upstream pusher sends to
\* is the one the stage holds as proc.
C30_AgreeOnProc ==
    \A n \in 1 .. stages : AtRest(n) => main[n - 1] = proc[n]

\* Stage n takes an overload signal in this step.
TakesSignal(n) == rpc[n] = "select" /\ rpc'[n] = "drainFull"

\* The second part of C30: when a stage takes an overload signal the channel
\* it holds as proc is full, unless a pass has taken reports out of it.
C30_SignalOnlyWhenFull ==
    [][\A n \in 1 .. stages :
          TakesSignal(n) /\ (\A r \in Reports : n \notin InChan(tries[r]))
              => Len(ChanOf(proc[n])[n]) = rc[n]]_vars

\* The stage has resent reports and is at rest, and the upstream pusher
\* sends to the channel the stage holds as wait: the next report pushed there
\* with room is taken as an overload signal.
C30_PusherOnWait ==
    \E n \in 1 .. stages :
        /\ AtRest(n)
        /\ main[n - 1] # proc[n]
        /\ Len(ChanOf(main[n - 1])[n]) < rc[n]

(***************************************************************************)
(* Claims about the retry pipeline under fairness                           *)
(***************************************************************************)
\* Reports submitted per behaviour of the specification below.
MaxRetried == 4

\* Stage n of the retry flow and DrainTrash goroutine g, each as one task.
\* Every client.Do of the stage returns, with a timeout.
Reporter(n) ==
    \/ ReporterWait(n)
    \/ ReporterTimer(n)
    \/ ReporterDrain(n, TimedOut)
    \/ ReporterDrainEnd(n)
    \/ ReporterSemaphore(n, TimedOut)

DrainTrash(g) ==
    \/ \E p \in Pushers : DrainRecv(g, p)
    \/ DrainLog(g)

\* One retry stage, the star out of reach for good: every send times out.
InitRetry ==
    /\ InitCongest
    /\ Len(rc) = 1

NextRetry ==
    \/ \E r \in 1 .. MaxRetried : Submit(r)
    \/ \E r \in Reports : Sender(r, TimedOut)
    \/ \E r \in Reports : DeliveryFailed(r)
    \/ \E n \in StageIDs : Reporter(n)
    \/ \E g \in Drainers : DrainTrash(g)

SpecRetry == InitRetry /\ [][NextRetry]_vars

\* Every task takes a step whenever it can: the stage's timer keeps firing,
\* every client.Do returns, deliveryFailed and the DrainTrash goroutines
\* are scheduled.
FairSpecRetry ==
    /\ SpecRetry
    /\ WF_vars(\E r \in Reports : DeliveryFailed(r))
    /\ \A n \in StageIDs : WF_vars(Reporter(n))
    /\ \A g \in Drainers : WF_vars(DrainTrash(g))

\* Report r is in one of the two queues of stage n.
Queued(n, r) == r \in InChan(procN[n]) \cup InChan(waitN[n])
\* Stage n has resent report r.
RetriedBy(n, r) == \E k \in DOMAIN tries[r] : tries[r][k] = n

\* C31: every report placed in a queue of a retry stage is eventually taken
\* out of it and retried by that stage, given that the stage's timer keeps
\* firing and every HTTP attempt returns.
C31_QueuedIsRetried ==
    \A n \in StageIDs, r \in Reports : Queued(n, r) ~> RetriedBy(n, r)

(***************************************************************************)
(* Claims about the receivers' parse                                        *)
(***************************************************************************)
\* The manager with receiver tasks that read packets, within one unit of the
\* clock (no probe times out): what the dispatcher receives is what a task
\* sent on its icmpResponse channel.
NextParse ==
    \/ IssueCall
    \/ \E f \in Families : \E msg \in Packets(f) : RecvPacket(f, msg)
    \/ DispNow
    \/ DispPushed
    \/ DispTicker
    \/ DispRemove
    \/ DispSweep

SpecParse == InitICMP /\ [][NextParse]_vars

\* The error message embeds an ICMP echo.
EmbedsEcho(msg) ==
    /\ msg.Data.Kind = "datagram"
    /\ msg.Data.Protocol = "ICMP"
    /\ msg.Data.Type = "EchoRequest"
\* The packets the claim lets through.
Listed(msg) ==
    \/ msg.Type = "EchoReply"
    \/ msg.Type = "TimeExceeded" /\ msg.Code = 0 /\ EmbedsEcho(msg)
    \/ msg.Type = "DstUnreach" /\ EmbedsEcho(msg)
\* The error message embeds a datagram of another protocol.
EmbedsOther(msg) ==
    /\ msg.Type \in {"TimeExceeded", "DstUnreach"}
    /\ msg.Type = "TimeExceeded" => msg.Code = 0
    /\ msg.Data.Kind = "datagram"
    /\ msg.Data.Protocol # "ICMP"
\* The dispatcher receives the response of the latest receiver task and
\* delivers a result made of it.
DeliversPushed ==
    /\ pushed.to = "icmpResponse"
    /\ ~pushed.read
    /\ pushed'.read
    /\ delivered' # {}

\* C32: a receiver produces an ICMPResponse only for an Echo Reply, a Time
\* Exceeded with code 0 or a Destination Unreachable that embeds an ICMP
\* echo; every other inbound packet, an inbound Echo Request among them,
\* produces no ICMPResponse and no ProbeResult, and an error that embeds a
\* datagram of another protocol goes to the raw channel only.
C32_OnlyListedPackets ==
    /\ [](pushed.to = "icmpResponse" => Listed(packet.msg))
    /\ [](pushed.to = "rawResponse" => EmbedsOther(packet.msg))
    /\ [][DeliversPushed => Listed(packet.msg)]_vars

\* C32, what holds of it: but for the Echo Request, which is taken for an
\* Echo Reply, only the listed packets give an ICMPResponse or a result, and
\* exactly the errors that embed another protocol give a RawResponse.
C32_OnlyListedOrEchoRequest ==
    /\ [](pushed.to = "icmpResponse"
            => Listed(packet.msg) \/ packet.msg.Type = "EchoRequest")
    /\ [](packet # NoPacket
            => (pushed.to = "rawResponse" <=>
                  packet.msg.Type # "connErr" /\ EmbedsOther(packet.msg)))
    /\ [][DeliversPushed
            => Listed(packet.msg) \/ packet.msg.Type = "EchoRequest"]_vars

\* An inbound Echo Request has given a probe its result, code 257.
C32_EchoRequestAnswersProbe ==
    /\ dpc = "remove"
    /\ packet # NoPacket
    /\ packet.msg.Type = "EchoRequest"
    /\ pushed.to = "icmpResponse"
    /\ pushed.read
    /\ response.Received = pushed.r.Received
    /\ \E d \in delivered : d.Result.Code = 257

(***************************************************************************)
(* Claims about the timeout result                                          *)
(***************************************************************************)
\* C33: a result with code 256 is never delivered to a probe before that
\* probe's deadline has passed, whether it comes from the timeout sweep or
\* from a late response.
C33_TimeoutAfterDeadline ==
    \A d \in delivered :
        d.Result.Code = 256
            => /\ d.Request.Deadline < clock
               /\ d.Result.Received # -1
                    => d.Request.Deadline < d.Result.Received

\* A late response has given a probe the result with code 256.
C33_LateResponseTimesOut ==
    \E d \in delivered :
        /\ d.Result.Code = 256
        /\ d.Result.Received # -1
        /\ dpc = "remove"

\* The sweep has given a probe the result with code 256.
C33_SweepTimesOut ==
    \E d \in delivered :
        /\ d.Result.Code = 256
        /\ d.Result.Received = -1
        /\ dpc = "sweepRemove"

(***************************************************************************)
(* Claims about the sinks                                                   *)
(***************************************************************************)
\* A step sends a result on sink p.
SendsOn(p) == sink'[p] # sink[p]

\* C34: delivering a result never blocks the dispatcher and never targets a
\* sink that was already completed: no sink is sent more results than it has
\* room for, whether or not its consumer reads it (no sink of the model is
\* read), and a result is sent only on a sink that has had none, which that
\* result completes.
C34_DeliverNeverBlocks ==
    /\ [](\A p \in DOMAIN sink : sink[p] <= SinkCapacity)
    /\ [][\A p \in DOMAIN sink :
            SendsOn(p) => sink[p] = 0 /\ sink'[p] = 1]_vars

\* With the first sink completed and unread, a probe issued later gets its
\* result.
C34_Witness ==
    /\ Len(sink) = 2
    /\ sink[1] = 1
    /\ sink[2] = 1
    /\ \E d \in delivered : d.Request.Sink = 2

(***************************************************************************)
(* Claims about where a report is                                           *)
(***************************************************************************)
\* The places of the queues that hold a report: level, channel, position.
QueueSlots ==
    {s \in Levels \X {"procN", "waitN"} \X (1 .. Capacity) :
        s[3] <= Len(ChanOf(s[2])[s[1]])}
InQueue(r) == {s \in QueueSlots : ChanOf(s[2])[s[1]][s[3]] = r}
\* The stages that hold report r: as semaphore, or in the send that hands it
\* on after the resend.
Holders(r) == {n \in StageIDs : semaphore[n] = r \/ sending[n] = r}
\* The ways a report ends once it has failed its first send.
Outcomes == {"redelivered", "dropped", "congested", "trash"}
Places(r) ==
    Cardinality(InQueue(r)) + Cardinality(Holders(r))
        + (IF report[r] \in Outcomes THEN 1 ELSE 0)
\* The report has left deliveryFailed: it is in the retry flow or has ended
\* there.
Entered(r) ==
    /\ report[r] \notin {"created", "sender", "failedChannel", "delivered",
                         "discarded"}
    /\ sending[0] # r

\* C35: every report that entered the retry pipeline is at every moment in
\* exactly one place: in one queue of one stage, in the hands of one stage
\* that retries it, or finished (delivered, dropped, discarded as congested,
\* trashed); a report that has not entered it is in none of these places.
C35_ExactlyOnePlace ==
    \A r \in Reports : Places(r) = IF Entered(r) THEN 1 ELSE 0

\* Stage 1 has resent a report that now waits in a queue of stage 2, and
\* holds another one.
C35_Witness ==
    \E r, q \in Reports :
        /\ r # q
        /\ \E s \in InQueue(r) : s[1] = 2
        /\ RetriedBy(1, r)
        /\ Holders(q) = {1}

====
